---- MODULE Spec2Model ----
(***************************************************************************)
(* Model of the Civitai collection harvester:                              *)
(*   backend/legacy/civitai_refactored.py  (CivitaiPrivateScraper)         *)
(*   backend/src/civitai_api.py            (CivitaiAPI)                    *)
(*   backend/src/civitai_auth.py           (session token cache, login)    *)
(*   backend/src/civitai_image.py          (CivitaiImage)                  *)
(*                                                                         *)
(* JSON values are tagged records [t, v]:                                  *)
(*   null   [t |-> "null"]                     Python None / JSON null       *)
(*   str    [t |-> "str",  s |-> "..."]                                    *)
(*   num    [t |-> "num",  n |-> n]                                        *)
(*   list   [t |-> "list", elems |-> <<e1, ..., en>>]                      *)
(*   dict   [t |-> "dict", entries |-> << <<k1, v1>>, ..., <<kn, vn>> >>]  *)
(*          (entries in insertion order, keys distinct)                    *)
(*   text   [t |-> "text", doc |-> x, sep |-> s]  the string json.dumps(x) *)
(***************************************************************************)
EXTENDS Integers, Sequences, FiniteSets, TLC

VARIABLES
    pc,             \* position of fetch_collection_items: "loop" | "done"
    limit,          \* the limit argument: None or a number
    items,          \* items accumulated so far (list of item dicts)
    cursor,         \* current cursor (None on the first page)
    page_count,     \* pages appended
    seen_item_ids,  \* cumulative set of ids seen
    request,        \* the last request sent: [cursor, params]
    response,       \* the last response received: [status, body]
    fetches,        \* number of requests.get calls issued
    outcome,        \* "running" | "returned" | "raised"
    term,           \* termination reason of the pagination loop
    tree,           \* the object handed to _find_deep_image_list
    nest,           \* number of containers wrapped around the base of tree
    located,        \* results of _find_deep_image_list on tree (both classes)
    cache_file,     \* content of the CIVITAI_SESSION_CACHE file, or NoFile
    dotenv_file,    \* lines of the .env file next to the cache file, or NoFile
    environ,        \* os.environ restricted to the two session variables
    config_cookie,  \* config.CIVITAI_SESSION_COOKIE
    browser,        \* what the Playwright login will do when it is started
    resolutions,    \* one record per _get_auto_session_token call, in order
    call,           \* arguments of the helper function under analysis
    ret,            \* its successive return values
    scrape_pc,      \* position of scrape: "idle" | "list" | "detail" | "tags"
                    \*   | "sleep" | "done" | "raised"
    idx,            \* 1-based position of scrape's loop in collection_items
    curated_data,   \* merged records appended so far
    wire,           \* per-item requests and sleeps of scrape, in order
    instance,       \* CivitaiAPI._instance with its attributes, or None
    sessions,       \* number of requests.Session objects created
    handed          \* outcome of each CivitaiAPI(...) / get_instance() call

vars == <<pc, limit, items, cursor, page_count, seen_item_ids, request,
          response, fetches, outcome, term, tree, nest, located,
          cache_file, dotenv_file, environ, config_cookie, browser,
          resolutions, call, ret, scrape_pc, idx, curated_data, wire,
          instance, sessions, handed>>

pagerVars == <<pc, limit, items, cursor, page_count, seen_item_ids, request,
               response, fetches, outcome, term>>

locatorVars == <<tree, nest, located>>

credVars == <<cache_file, dotenv_file, environ, config_cookie, browser,
              resolutions>>

helperVars == <<call, ret>>

scrapeVars == <<scrape_pc, idx, curated_data, wire>>

apiVars == <<instance, sessions, handed>>

-----------------------------------------------------------------------------
(* Bounds of the model *)

MaxId == 5          \* item ids are 1..MaxId
MaxPageLen == 3     \* a served page holds 1..MaxPageLen items
MaxLimit == 4       \* limits are None or -1..MaxLimit
MaxNest == 12       \* containers wrapped around an item list (locator)
MaxProbeNest == 1   \* containers wrapped around a probed map (locator)
MaxScrapePage == 2  \* items on a list page of the harvested collection

ItemIds == 1..MaxId

-----------------------------------------------------------------------------
(* JSON values and the Python operations the code applies to them *)

None == [t |-> "null"]
JStr(s) == [t |-> "str", s |-> s]
JNum(n) == [t |-> "num", n |-> n]
JList(s) == [t |-> "list", elems |-> s]
JDict(entries) == [t |-> "dict", entries |-> entries]

IsNone(x) == x.t = "null"
IsList(x) == x.t = "list"
IsDict(x) == x.t = "dict"

\* Python ==, on values of possibly different types
PyEq(a, b) == a.t = b.t /\ a = b

\* Python truthiness: `if x:`
Truthy(x) ==
    CASE x.t = "null" -> FALSE
      [] x.t = "str"  -> x.s # ""
      [] x.t = "num"  -> x.n # 0
      [] x.t = "list" -> Len(x.elems) > 0
      [] x.t = "dict" -> Len(x.entries) > 0
      [] OTHER        -> TRUE

\* key in d
HasKey(d, k) == \E i \in 1..Len(d.entries) : d.entries[i][1] = k

\* d[k], for a key that is present
Lookup(d, k) == d.entries[CHOOSE i \in 1..Len(d.entries) : d.entries[i][1] = k][2]

\* d.get(k)
Get(d, k) == IF HasKey(d, k) THEN Lookup(d, k) ELSE None

\* d.get(k, default)
GetOr(d, k, default) == IF HasKey(d, k) THEN Lookup(d, k) ELSE default

\* json.dumps(x): a string holding the serialisation of x
JsonDumps(x, sep) == [t |-> "text", doc |-> x, sep |-> sep]

\* json.loads(s), for a string produced by json.dumps
JsonLoads(s) == s.doc

\* an item dict of the list endpoint
Item(i) == JDict(<< <<"id", JNum(i)>>, <<"type", JStr("image")>> >>)

\* [f(s[1]), ..., f(s[n])] for the ids of a page
ItemsOf(ids) == [k \in 1..Len(ids) |-> Item(ids[k])]

-----------------------------------------------------------------------------
(* Deep Result Locator: CivitaiPrivateScraper._find_deep_image_list and    *)
(* CivitaiAPI._find_deep_image_list.  The result is the list found, or     *)
(* None.                                                                   *)

\* the depth test off by one: `if depth > 11`
MaxDepth_Deeper == 10 + 1

\* the depth test off by one: `if depth >= 10`
MaxDepth_Shallower == 10 - 1

MaxDepth == 10

RECURSIVE FindDeepImageList(_, _)
RECURSIVE LegacySearchList(_, _, _)
RECURSIVE LegacyProbeKeys(_, _, _)
RECURSIVE LegacySearchValues(_, _, _)

\* legacy `for item in obj:` from element i on
LegacySearchList(obj, i, depth) ==
    IF i > Len(obj.elems) THEN None
    ELSE LET res == FindDeepImageList(obj.elems[i], depth + 1)
         IN  IF Truthy(res) THEN res ELSE LegacySearchList(obj, i + 1, depth)

\* the conventional keys are not probed
LegacyProbeKeys_Skipped(obj, keys, depth) == None

\* legacy `for key in ["items", "pages"]:` from the i-th of keys on; a miss
\* yields None and the caller goes on to the scan of all values
LegacyProbeKeys(obj, keys, depth) ==
    IF keys = <<>> THEN None
    ELSE LET key == Head(keys)
             res == IF HasKey(obj, key) /\ IsList(Lookup(obj, key))
                    THEN FindDeepImageList(Lookup(obj, key), depth + 1)
                    ELSE None
         IN  IF Truthy(res) THEN res ELSE LegacyProbeKeys(obj, Tail(keys), depth)

\* legacy `for key, value in obj.items():` from entry i on
LegacySearchValues(obj, i, depth) ==
    IF i > Len(obj.entries) THEN None
    ELSE LET res == FindDeepImageList(obj.entries[i][2], depth + 1)
         IN  IF Truthy(res) THEN res ELSE LegacySearchValues(obj, i + 1, depth)

FindDeepImageList(obj, depth) ==
    IF depth > MaxDepth THEN None
    ELSE IF /\ IsList(obj)
            /\ Len(obj.elems) > 0
            /\ IsDict(obj.elems[1])
            /\ HasKey(obj.elems[1], "id")
            /\ PyEq(Get(obj.elems[1], "type"), JStr("image"))
         THEN obj
    ELSE IF IsList(obj) THEN LegacySearchList(obj, 1, depth)
    ELSE IF IsDict(obj)
         THEN LET res == LegacyProbeKeys(obj, <<"items", "pages">>, depth)
              IN  IF Truthy(res) THEN res ELSE LegacySearchValues(obj, 1, depth)
    ELSE None

\* CivitaiAPI._is_image_list
IsImageList(obj) ==
    /\ Len(obj.elems) > 0
    /\ IsDict(obj.elems[1])
    /\ HasKey(obj.elems[1], "id")
    /\ PyEq(Get(obj.elems[1], "type"), JStr("image"))

RECURSIVE ApiFindDeepImageList(_, _)
RECURSIVE SearchListFrom(_, _, _)
RECURSIVE SearchDictKeysFrom(_, _, _)
RECURSIVE SearchDictValuesFrom(_, _, _)

SearchListFrom(obj, i, depth) ==
    IF i > Len(obj.elems) THEN None
    ELSE LET result == ApiFindDeepImageList(obj.elems[i], depth + 1)
         IN  IF Truthy(result) THEN result ELSE SearchListFrom(obj, i + 1, depth)

SearchDictKeysFrom(obj, keys, depth) ==
    IF keys = <<>> THEN None
    ELSE LET key == Head(keys)
             result == IF HasKey(obj, key) /\ IsList(Lookup(obj, key))
                       THEN ApiFindDeepImageList(Lookup(obj, key), depth + 1)
                       ELSE None
         IN  IF Truthy(result) THEN result
             ELSE SearchDictKeysFrom(obj, Tail(keys), depth)

SearchDictValuesFrom(obj, i, depth) ==
    IF i > Len(obj.entries) THEN None
    ELSE LET result == ApiFindDeepImageList(obj.entries[i][2], depth + 1)
         IN  IF Truthy(result) THEN result
             ELSE SearchDictValuesFrom(obj, i + 1, depth)

\* CivitaiAPI._search_list
SearchList(obj, depth) == SearchListFrom(obj, 1, depth)

\* CivitaiAPI._search_dict_keys
SearchDictKeys(obj, depth) == SearchDictKeysFrom(obj, <<"items", "pages">>, depth)

\* CivitaiAPI._search_dict_values
SearchDictValues(obj, depth) == SearchDictValuesFrom(obj, 1, depth)

ApiFindDeepImageList(obj, depth) ==
    IF depth > MaxDepth THEN None
    ELSE IF IsList(obj)
         THEN IF IsImageList(obj) THEN obj ELSE SearchList(obj, depth)
    ELSE IF IsDict(obj)
         THEN LET result == SearchDictKeys(obj, depth)
              IN  IF Truthy(result) THEN result ELSE SearchDictValues(obj, depth)
    ELSE None

-----------------------------------------------------------------------------
(* Envelope Codec: _build_trpc_payload of both classes *)

RECURSIVE DictSetFrom(_, _, _, _)
DictSetFrom(entries, i, k, val) ==
    IF i > Len(entries) THEN Append(entries, <<k, val>>)
    ELSE IF entries[i][1] = k
         THEN [entries EXCEPT ![i] = <<k, val>>]
         ELSE DictSetFrom(entries, i + 1, k, val)

\* d[k] = val: an existing key keeps its position, a new key goes last
DictSet(d, k, val) == JDict(DictSetFrom(d.entries, 1, k, val))

RECURSIVE DictMergeFrom(_, _, _)
DictMergeFrom(d, entries, i) ==
    IF i > Len(entries) THEN d
    ELSE DictMergeFrom(DictSet(d, entries[i][1], entries[i][2]), entries, i + 1)

\* {**a, **b}
DictMerge(a, b) == DictMergeFrom(a, b.entries, 1)

CollectionId == 11035255

\* CivitaiAPI.default_params (the keys that matter to pagination)
DefaultParams ==
    JDict(<< <<"collectionId", JNum(10842247)>>,
             <<"period", JStr("AllTime")>>,
             <<"sort", JStr("Newest")>>,
             <<"cursor", None>>,
             <<"authed", JStr("True")>> >>)

\* CivitaiAPI.default_meta
DefaultMeta ==
    JDict(<< <<"meta",
               JDict(<< <<"values",
                          JDict(<< <<"cursor", JList(<<JStr("undefined")>>)>> >>)>> >>)>> >>)

EmptyDict == JDict(<<>>)

\* CivitaiAPI._build_trpc_payload
ApiBuildTrpcPayload(input_json) ==
    LET input_meta == IF IsNone(Get(input_json, "cursor")) THEN DefaultMeta
                      ELSE EmptyDict
    IN  JsonDumps(DictMerge(JDict(<< <<"json", input_json>> >>), input_meta),
                  "compact")

\* the block sent on every page, whatever the cursor
BuildTrpcPayload_AlwaysMeta(input_json) ==
    LET params == JDict(<< <<"input",
                             JsonDumps(DictMerge(JDict(<< <<"json", input_json>> >>),
                                                 DefaultMeta), "default")>> >>)
    IN  JsonDumps(params, "default")

\* CivitaiPrivateScraper._build_trpc_payload
BuildTrpcPayload(input_json) ==
    LET meta_data == IF IsNone(Get(input_json, "cursor")) THEN DefaultMeta
                     ELSE EmptyDict
        params == JDict(<< <<"input",
                             JsonDumps(DictMerge(JDict(<< <<"json", input_json>> >>),
                                                 meta_data), "default")>> >>)
    IN  JsonDumps(params, "default")

-----------------------------------------------------------------------------
(* The remote endpoint: every response it may give to one page request *)

\* the id runs a page may hold: <<a, a+1, ..., a+n-1>> within ItemIds
ServedPages ==
    LET Pages == { [k \in 1..n |-> a + k - 1] :
                     a \in ItemIds, n \in 1..MaxPageLen }
    IN  { p \in Pages : \A k \in 1..Len(p) : p[k] \in ItemIds }

Absent == [t |-> "absent"]

\* {"result": {"data": {"json": {"nextCursor": next, "items": [...]}}}}
PageBody(ids, next) ==
    LET json == IF next = Absent
                THEN JDict(<< <<"items", JList(ItemsOf(ids))>> >>)
                ELSE JDict(<< <<"nextCursor", next>>,
                              <<"items", JList(ItemsOf(ids))>> >>)
    IN  JDict(<< <<"result", JDict(<< <<"data", JDict(<< <<"json", json>> >>)>> >>)>> >>)

RECURSIVE WrapInLists(_, _)
WrapInLists(x, n) == IF n = 0 THEN x ELSE WrapInLists(JList(<<x>>), n - 1)

\* a page whose item list lies at depth 11 (4 levels of the envelope, 7 lists)
DeepBody ==
    JDict(<< <<"result",
               JDict(<< <<"data",
                          JDict(<< <<"json",
                                     JDict(<< <<"nextCursor", JStr("a")>>,
                                              <<"items",
                                                WrapInLists(JList(ItemsOf(<<1>>)),
                                                            7)>> >>)>> >>)>> >>)>> >>)

\* a page with an empty item list
EmptyBody == PageBody(<<>>, JStr("a"))

\* a 200 body without any item list
NoListBody ==
    JDict(<< <<"error", JDict(<< <<"message", JStr("not found")>> >>)>> >>)

\* a body that is the bare item list (no result -> data -> json path)
BareListBody(ids) == JList(ItemsOf(ids))

HttpResponse(status, body) == [kind |-> "http", status |-> status, body |-> body]

\* requests.get raising (connection error, timeout)
NetworkError == [kind |-> "raise", status |-> 0, body |-> None]

\* nextCursor may be a string or a number, or be absent
Responses ==
    { HttpResponse(200, PageBody(ids, next)) :
        ids \in ServedPages,
        next \in {JStr("a"), JStr("b"), JNum(0), JStr(""), Absent} }
    \cup { HttpResponse(200, BareListBody(ids)) : ids \in ServedPages }
    \cup { HttpResponse(200, DeepBody), HttpResponse(200, EmptyBody),
           HttpResponse(200, NoListBody), HttpResponse(500, None),
           NetworkError }

-----------------------------------------------------------------------------
(* Cursor Paginator: CivitaiPrivateScraper.fetch_collection_items *)

Raised == [t |-> "exception", s |-> "AttributeError"]

\* x.get(k, default), raising AttributeError when x is no dict
PyGet(x, k, default) ==
    IF x.t = "exception" THEN x
    ELSE IF IsDict(x) THEN GetOr(x, k, default)
    ELSE Raised

\* data.get("result", {}).get("data", {}).get("json", {}).get("nextCursor")
ReadNextCursor(data) ==
    PyGet(PyGet(PyGet(PyGet(data, "result", EmptyDict), "data", EmptyDict),
                "json", EmptyDict), "nextCursor", None)

\* limit is not None and len(items) >= limit
LimitHit(lim, its) == ~IsNone(lim) /\ Len(its) >= lim.n

\* {item.get("id") for item in page_items}
IdsOf(page_items) == { Get(page_items[k], "id") : k \in 1..Len(page_items) }

\* no duplicate detection at all
IsDuplicatePage_Never(new_item_ids, seen) == FALSE

\* a page counts as a duplicate only when every id of it was seen
IsDuplicatePage_WholePage(new_item_ids, seen) == new_item_ids \subseteq seen

\* duplicate_count > 1
IsDuplicatePage_AtLeastTwo(new_item_ids, seen) ==
    Cardinality(new_item_ids \cap seen) > 1

\* duplicate_count > 0
IsDuplicatePage(new_item_ids, seen) == Cardinality(new_item_ids \cap seen) > 0

\* remaining = limit - len(items) if limit else None
Remaining(lim, its) == IF Truthy(lim) THEN JNum(lim.n - Len(its)) ELSE None

\* remaining is not None and len(page_items) > remaining
OverBudget(remaining, page_items) ==
    ~IsNone(remaining) /\ Len(page_items) > remaining.n

\* page_items[:n]
PyPrefix(s, n) ==
    IF n >= 0 THEN SubSeq(s, 1, IF n < Len(s) THEN n ELSE Len(s))
    ELSE SubSeq(s, 1, IF Len(s) + n > 0 THEN Len(s) + n ELSE 0)

\* next_cursor and next_cursor != cursor
CursorAdvances(next_cursor, cur) ==
    /\ next_cursor.t # "exception"
    /\ Truthy(next_cursor)
    /\ ~PyEq(next_cursor, cur)

\* payload_data of one iteration
PayloadData(cur) ==
    DictSet(DictSet(DefaultParams, "collectionId", JNum(CollectionId)),
            "cursor", cur)

Stop(reason, how) ==
    /\ pc' = "done"
    /\ term' = reason
    /\ outcome' = how

\* top of the loop: the limit is already reached
LimitReached ==
    /\ pc = "loop"
    /\ LimitHit(limit, items)
    /\ Stop("LIMIT_REACHED", "returned")
    /\ UNCHANGED <<limit, items, cursor, page_count, seen_item_ids, request,
                   response, fetches>>
    /\ UNCHANGED locatorVars
    /\ UNCHANGED <<credVars, helperVars, scrapeVars, apiVars>>

\* one iteration of the loop that issues a request, answered by resp
FetchPage(resp) ==
    /\ pc = "loop"
    /\ ~LimitHit(limit, items)
    /\ fetches < MaxId + 3     \* caps the exploration; never binding
    /\ LET payload_data == PayloadData(cursor)
           params == JDict(<< <<"input", BuildTrpcPayload(payload_data)>> >>)
       IN  request' = [payload |-> payload_data, params |-> params]
    /\ fetches' = fetches + 1
    /\ response' = resp
    /\ UNCHANGED limit
    /\ UNCHANGED locatorVars
    /\ UNCHANGED <<credVars, helperVars, scrapeVars, apiVars>>
    /\ IF resp.kind = "raise"
       THEN /\ Stop("EXCEPTION", "raised")
            /\ UNCHANGED <<items, cursor, page_count, seen_item_ids>>
       ELSE IF resp.status # 200
       THEN /\ Stop("ERROR", "returned")
            /\ UNCHANGED <<items, cursor, page_count, seen_item_ids>>
       ELSE
       LET data == resp.body
           found == FindDeepImageList(data, 0)
       IN  IF ~Truthy(found)
           THEN /\ Stop("EXHAUSTED", "returned")
                /\ UNCHANGED <<items, cursor, page_count, seen_item_ids>>
           ELSE
           LET page_items == found.elems
               new_item_ids == IdsOf(page_items)
           IN  IF IsDuplicatePage(new_item_ids, seen_item_ids)
               THEN /\ Stop("DUPLICATE_STALL", "returned")
                    /\ UNCHANGED <<items, cursor, page_count, seen_item_ids>>
               ELSE
               LET remaining == Remaining(limit, items)
               IN  /\ seen_item_ids' = seen_item_ids \cup new_item_ids
                   /\ IF OverBudget(remaining, page_items)
                      THEN /\ items' = items \o PyPrefix(page_items, remaining.n)
                           /\ Stop("LIMIT_REACHED", "returned")
                           /\ UNCHANGED <<cursor, page_count>>
                      ELSE
                      LET next_cursor == ReadNextCursor(data)
                      IN  /\ items' = items \o page_items
                          /\ page_count' = page_count + 1
                          /\ IF CursorAdvances(next_cursor, cursor)
                             THEN /\ cursor' = next_cursor
                                  /\ UNCHANGED <<pc, term, outcome>>
                             ELSE /\ Stop("EXHAUSTED", "returned")
                                  /\ UNCHANGED cursor

\* None, a count, or the -1 the usage notes give for "all images"
LimitValues == {None} \cup { JNum(n) : n \in (-1)..MaxLimit }

NoRequest == [payload |-> None, params |-> None]
NoResponse == [kind |-> "none", status |-> 0, body |-> None]

PagerInit ==
    /\ pc = "loop"
    /\ limit \in LimitValues
    /\ items = <<>>
    /\ cursor = None
    /\ page_count = 0
    /\ seen_item_ids = {}
    /\ request = NoRequest
    /\ response = NoResponse
    /\ fetches = 0
    /\ outcome = "running"
    /\ term = "NONE"

\* the credential sources and the helper functions are not exercised
CredIdle ==
    /\ cache_file = None
    /\ dotenv_file = None
    /\ environ = None
    /\ config_cookie = None
    /\ browser = None
    /\ resolutions = <<>>

HelperIdle ==
    /\ call = None
    /\ ret = <<>>

\* scrape is not running
ScrapeIdle ==
    /\ scrape_pc = "idle"
    /\ idx = 0
    /\ curated_data = <<>>
    /\ wire = <<>>

\* no CivitaiAPI has been constructed
ApiIdle ==
    /\ instance = None
    /\ sessions = 0
    /\ handed = <<>>

NotLocated == [ran |-> FALSE, legacy |-> None, api |-> None]

LocatorIdle ==
    /\ tree = None
    /\ nest = 0
    /\ located = NotLocated

Init ==
    PagerInit /\ LocatorIdle /\ CredIdle /\ HelperIdle /\ ScrapeIdle /\ ApiIdle

Next ==
    \/ LimitReached
    \/ \E resp \in Responses : FetchPage(resp)

Spec == Init /\ [][Next]_vars

-----------------------------------------------------------------------------
(* Properties of the envelope codec and the paginator *)

\* the envelope a legacy request carries: params["input"] holds the dump of
\* {"input": <dump of the envelope>}
LegacyEnvelopeOf(params) ==
    JsonLoads(Lookup(JsonLoads(Lookup(params, "input")), "input"))

\* the envelope holds meta.values.cursor = ["undefined"]
CarriesMetaBlock(envelope) ==
    /\ HasKey(envelope, "meta")
    /\ Lookup(envelope, "meta") = Lookup(DefaultMeta, "meta")

RequestCursor == Get(request.payload, "cursor")

\* the page located in a response (empty when none is located)
FetchedPage(resp) ==
    LET found == FindDeepImageList(resp.body, 0)
    IN  IF resp.kind = "http" /\ resp.status = 200 /\ Truthy(found)
        THEN found.elems ELSE <<>>

\* the fetched page holds an id of the set seen
RepeatsSeen(resp, seen) == \E k \in 1..Len(FetchedPage(resp)) :
    Get(FetchedPage(resp)[k], "id") \in seen

\* the response says there is a further page: a next cursor is present and
\* differs from cur
OffersNextPage(resp, cur) ==
    LET next == ReadNextCursor(resp.body)
    IN  /\ resp.kind = "http" /\ resp.status = 200
        /\ next.t \notin {"exception", "null"}
        /\ ~PyEq(next, cur)

\* nothing happens once the loop has been left
NoFetchAfterStop == pc = "done" => (fetches' = fetches /\ items' = items)

\* C1: the pagination-metadata block is in the encoded envelope iff the
\* payload's cursor is null, for both _build_trpc_payload methods; in a run of
\* fetch_collection_items exactly the first request has a null cursor, so
\* every later request omits the block.
C1_MetaOnlyOnFirstPage ==
    fetches > 0 =>
        /\ CarriesMetaBlock(LegacyEnvelopeOf(request.params))
             <=> IsNone(RequestCursor)
        /\ CarriesMetaBlock(JsonLoads(ApiBuildTrpcPayload(request.payload)))
             <=> IsNone(RequestCursor)
        /\ IsNone(RequestCursor) <=> fetches = 1

C1_Witness ==
    /\ fetches = 2
    /\ ~IsNone(RequestCursor)
    /\ ~CarriesMetaBlock(LegacyEnvelopeOf(request.params))

\* C2: a fetched page holding an id already seen stops pagination at that
\* page: nothing of the page is appended, the accumulated items are returned,
\* and no request follows.
C2_DuplicateStallStops ==
    [][ /\ (pc = "loop" /\ fetches' = fetches + 1
              /\ RepeatsSeen(response', seen_item_ids))
           => /\ pc' = "done"
              /\ term' = "DUPLICATE_STALL"
              /\ outcome' = "returned"
              /\ items' = items
              /\ cursor' = cursor
        /\ NoFetchAfterStop ]_vars

C2_Witness ==
    /\ term = "DUPLICATE_STALL"
    /\ pc = "done"
    /\ fetches = 3
    /\ Len(items) = 2

\* C3: with the endpoint answering null -> "a" and then "a" -> "a" with a page
\* it already served (a stall), the loop ends at the second fetch in
\* DUPLICATE_STALL and no third fetch is issued.
C3_StalledCursorTwoFetches ==
    [][ /\ (/\ pc = "loop" /\ fetches = 1 /\ fetches' = 2
            /\ PyEq(cursor, JStr("a"))
            /\ PyEq(ReadNextCursor(response'.body), JStr("a"))
            /\ RepeatsSeen(response', seen_item_ids))
           => /\ pc' = "done"
              /\ term' = "DUPLICATE_STALL"
              /\ outcome' = "returned"
        /\ NoFetchAfterStop ]_vars

C3_Witness ==
    /\ fetches = 2
    /\ pc = "done"
    /\ term = "DUPLICATE_STALL"
    /\ PyEq(RequestCursor, JStr("a"))
    /\ PyEq(ReadNextCursor(response.body), JStr("a"))

\* C4: with a limit L >= 1, never more than L items are held, and while the
\* endpoint keeps serving fresh pages with advancing cursors the loop stops
\* only with exactly L items (so min(L, total) items are returned).
C4_LimitExact ==
    (~IsNone(limit) /\ limit.n >= 1) =>
        /\ Len(items) <= limit.n
        /\ (/\ pc = "done"
            /\ Len(FetchedPage(response)) > 0
            /\ term # "DUPLICATE_STALL"
            /\ OffersNextPage(response, RequestCursor))
           => Len(items) = limit.n

\* C5: with no limit, every iteration that goes on adds a new id, so the loop
\* is left after at most |N| + 1 fetches whatever the endpoint answers.
C5_TerminatesWithinIdsPlusOne ==
    IsNone(limit) =>
        /\ fetches <= Cardinality(ItemIds) + 1
        /\ (pc = "loop" => Cardinality(seen_item_ids) >= fetches)
        /\ (fetches = Cardinality(ItemIds) + 1 => pc = "done")
        /\ (pc = "done" => term \in {"DUPLICATE_STALL", "EXHAUSTED", "ERROR",
                                     "EXCEPTION"})

C5_Witness ==
    /\ IsNone(limit)
    /\ fetches = Cardinality(ItemIds) + 1
    /\ pc = "done"
    /\ term = "DUPLICATE_STALL"

\* a non-200 answer, or a 200 answer in which no item list is located
IsBadPage(resp) ==
    /\ resp.kind = "http"
    /\ \/ resp.status # 200
       \/ resp.body \in {DeepBody, EmptyBody, NoListBody}

\* C6: a non-200 page, or a 200 page without a locatable item list (empty,
\* missing, deeper than the bound), stops pagination without raising; the
\* items of the earlier pages are returned and no request follows.
C6_BadPageStops ==
    [][ /\ (pc = "loop" /\ fetches' = fetches + 1 /\ IsBadPage(response'))
           => /\ pc' = "done"
              /\ outcome' = "returned"
              /\ term' = (IF response'.status # 200 THEN "ERROR" ELSE "EXHAUSTED")
              /\ items' = items
        /\ NoFetchAfterStop ]_vars

C6_Witness ==
    /\ pc = "done"
    /\ response.body = DeepBody
    /\ term = "EXHAUSTED"
    /\ outcome = "returned"
    /\ Len(items) = 2
    /\ fetches = 2

\* C7: a page fetch that raises at the transport level stops pagination and
\* the items accumulated so far are returned to the caller.
C7_NetworkErrorReturnsPartial ==
    (pc = "done" /\ response.kind = "raise") => outcome = "returned"

\* C8: after a page is appended the loop goes on iff the response carries a
\* next cursor that is present and differs from the current one, the next
\* request then carries that value; otherwise it stops as EXHAUSTED.
C8_CursorOpaque ==
    [][ page_count' = page_count + 1 =>
          IF OffersNextPage(response', cursor)
          THEN pc' = "loop" /\ cursor' = ReadNextCursor(response'.body)
          ELSE pc' = "done" /\ term' = "EXHAUSTED" ]_vars

-----------------------------------------------------------------------------
(* The locator applied to nested trees *)

PagerIdle ==
    /\ pc = "done"
    /\ limit = None
    /\ items = <<>>
    /\ cursor = None
    /\ page_count = 0
    /\ seen_item_ids = {}
    /\ request = NoRequest
    /\ response = NoResponse
    /\ fetches = 0
    /\ outcome = "running"
    /\ term = "NONE"

\* only the locator runs, on one of these trees
InitLocator(trees) ==
    /\ PagerIdle
    /\ ScrapeIdle
    /\ ApiIdle
    /\ CredIdle
    /\ HelperIdle
    /\ tree \in trees
    /\ nest = 0
    /\ located = NotLocated

\* only a helper function runs, on one of these argument records
HelperInit(calls) ==
    /\ PagerIdle
    /\ ScrapeIdle
    /\ ApiIdle
    /\ LocatorIdle
    /\ CredIdle
    /\ call \in calls
    /\ ret = <<>>

\* the item list searched for
BaseList == JList(ItemsOf(<<1, 2>>))

\* things that are no item list: a scalar, an empty list, a list of dicts
\* without type, a list of dicts of another type
Decoys ==
    JDict(<< <<"count", JNum(3)>>,
             <<"empty", JList(<<>>)>>,
             <<"untyped", JList(<<JDict(<< <<"id", JNum(9)>> >>)>>)>>,
             <<"posts", JList(<<JDict(<< <<"id", JNum(9)>>,
                                         <<"type", JStr("post")>> >>)>>)>> >>)

\* [ "x", tree ]
InList(x) == JList(<<JStr("x"), x>>)

\* { "meta": decoys, key: tree }, under a conventional key when tree is a list
InDict(x) ==
    JDict(<< <<"meta", Decoys>>, <<IF IsList(x) THEN "pages" ELSE "data", x>> >>)

WrapInList(bound) ==
    /\ ~located.ran
    /\ nest < bound
    /\ tree' = InList(tree)
    /\ nest' = nest + 1
    /\ UNCHANGED located
    /\ UNCHANGED pagerVars
    /\ UNCHANGED <<credVars, helperVars, scrapeVars, apiVars>>

WrapInDict(bound) ==
    /\ ~located.ran
    /\ nest < bound
    /\ tree' = InDict(tree)
    /\ nest' = nest + 1
    /\ UNCHANGED located
    /\ UNCHANGED pagerVars
    /\ UNCHANGED <<credVars, helperVars, scrapeVars, apiVars>>

\* self._find_deep_image_list(tree), on both classes
Locate ==
    /\ ~located.ran
    /\ located' = [ran |-> TRUE,
                   legacy |-> FindDeepImageList(tree, 0),
                   api |-> ApiFindDeepImageList(tree, 0)]
    /\ UNCHANGED <<tree, nest>>
    /\ UNCHANGED pagerVars
    /\ UNCHANGED <<credVars, helperVars, scrapeVars, apiVars>>

NextLocate ==
    \/ WrapInList(MaxNest)
    \/ WrapInDict(MaxNest)
    \/ Locate

SpecLocate == InitLocator({BaseList}) /\ [][NextLocate]_vars

\* the values a probed map may hold under key number i
ProbeValues(i) ==
    { JList(ItemsOf(<<i>>)),                          \* an item list
      JList(<<>>),                                    \* an empty list
      JStr("scalar"),
      JList(<<JList(ItemsOf(<<i + 3>>))>>),           \* an item list in a list
      JDict(<< <<"inner", JList(ItemsOf(<<i + 6>>))>> >>) }

ProbeKeys == <<"data", "items", "pages">>

\* maps of the three keys, inserted in any order, each with one of its values
WellFormedProbeMaps ==
    LET KeyOrders ==
            { o \in [1..3 -> 1..3] : \A a, b \in 1..3 : a # b => o[a] # o[b] }
        ProbeMaps ==
            { JDict([k \in 1..3 |-> <<ProbeKeys[o[k]], vals[o[k]]>>]) :
                o \in KeyOrders,
                vals \in [1..3 -> UNION { ProbeValues(i) : i \in 1..3 }] }
    IN  { m \in ProbeMaps :
            \A k \in 1..3 : \E i \in 1..3 :
                /\ m.entries[k][1] = ProbeKeys[i]
                /\ m.entries[k][2] \in ProbeValues(i) }

NextProbe ==
    \/ WrapInList(MaxProbeNest)
    \/ WrapInDict(MaxProbeNest)
    \/ Locate

SpecProbe == InitLocator(WellFormedProbeMaps) /\ [][NextProbe]_vars

-----------------------------------------------------------------------------
(* Properties of the locator *)

DepthBound == 10

\* C9: searching from depth 0, the item list is returned when it lies at
\* depth <= 10 under any mix of maps and arrays, and None is returned when it
\* lies deeper, by both _find_deep_image_list methods.
C9_LocatorDepthBound ==
    located.ran =>
        IF nest <= DepthBound
        THEN located.legacy = BaseList /\ located.api = BaseList
        ELSE located.legacy = None /\ located.api = None

C9_Witness ==
    /\ located.ran
    /\ nest = DepthBound
    /\ IsDict(tree)
    /\ located.legacy = BaseList

RECURSIVE Unwrap(_, _)
\* the tree the wrappers were put around
Unwrap(x, n) ==
    IF n = 0 THEN x
    ELSE IF IsList(x) THEN Unwrap(x.elems[2], n - 1)
    ELSE Unwrap(x.entries[2][2], n - 1)

\* the item list a value of a probed map leads to, None when it leads to none
MatchIn(val) ==
    IF IsList(val) /\ Len(val.elems) > 0 /\ IsDict(val.elems[1]) THEN val
    ELSE IF IsList(val) /\ Len(val.elems) > 0 /\ IsList(val.elems[1])
         THEN val.elems[1]
    ELSE IF IsDict(val) THEN Lookup(val, "inner")
    ELSE None

\* what probing a conventional key yields: only list values are probed
Probed(m, key) ==
    IF HasKey(m, key) /\ IsList(Lookup(m, key)) THEN MatchIn(Lookup(m, key))
    ELSE None

\* the first match of the values in insertion order
FirstByInsertion(m) ==
    LET hits == { k \in 1..Len(m.entries) : MatchIn(m.entries[k][2]) # None }
    IN  IF hits = {} THEN None
        ELSE MatchIn(m.entries[CHOOSE k \in hits : \A j \in hits : k <= j][2])

ExpectedOfMap(m) ==
    IF Probed(m, "items") # None THEN Probed(m, "items")
    ELSE IF Probed(m, "pages") # None THEN Probed(m, "pages")
    ELSE FirstByInsertion(m)

-----------------------------------------------------------------------------
(* The session credential: backend/src/civitai_api.py (the four sources    *)
(* and _get_auto_session_token) and backend/src/civitai_auth.py (the token *)
(* cache and the browser login).                                           *)
(*                                                                         *)
(* A token is a string known by who issued it and by its length; a file is *)
(* its text with or without surrounding whitespace.                        *)

\* number of _get_auto_session_token calls explored
MaxResolutions == 2

Token(name, n) == [t |-> "token", name |-> name, len |-> n]

\* the strings one issuer may have produced: "", and tokens of a length
\* below, at and above the validity threshold
TokensOf(name) == {Token("", 0)} \cup { Token(name, n) : n \in {40, 100, 101} }

\* bool(x) of an Optional[str]
TokenTruthy(x) == x.t = "token" /\ x.len > 0

\* a or b
PyOr(a, b) == IF TokenTruthy(a) THEN a ELSE b

NoFile == [t |-> "nofile"]

\* a text file holding token, padded with whitespace or not
TextFile(token, padded) == [t |-> "file", token |-> token, padded |-> padded]

\* os.path.exists(path)
Exists(f) == f.t = "file"

\* f.read().strip()
ReadStripped(f) == f.token

\* one KEY=value line of the .env file
EnvLine(key, value, quoted) == [key |-> key, value |-> value, quoted |-> quoted]

EnvFile(lines) == [t |-> "file", lines |-> lines]

\* CivitaiAPI._get_session_token_from_cache
GetSessionTokenFromCache(cf) ==
    IF Exists(cf)
    THEN LET token == ReadStripped(cf)
         IN  IF TokenTruthy(token) /\ token.len > 100 THEN token ELSE None
    ELSE None

\* CivitaiAPI._get_session_token_from_env
GetSessionTokenFromEnv(env) ==
    LET env_token == PyOr(env["CIVITAI_SESSION_COOKIE"],
                          env["CIVITAI_SESSION_TOKEN"])
    IN  IF TokenTruthy(env_token) /\ env_token.len > 100
        THEN env_token ELSE None

\* CivitaiAPI._get_session_token_from_config
GetSessionTokenFromConfig(cc) ==
    IF TokenTruthy(cc) /\ cc.len > 100 THEN cc ELSE None

\* civitai_auth._load_cached_token
LoadCachedToken(cf) ==
    IF Exists(cf)
    THEN LET token == ReadStripped(cf)
         IN  IF TokenTruthy(token) THEN token ELSE None
    ELSE None

\* re.sub / append of the CIVITAI_SESSION_COOKIE line in the .env text
UpdateEnvLines(lines, token) ==
    LET replacement == EnvLine("CIVITAI_SESSION_COOKIE", token, TRUE)
    IN  IF \E i \in 1..Len(lines) : lines[i].key = "CIVITAI_SESSION_COOKIE"
        THEN [i \in 1..Len(lines) |->
                 IF lines[i].key = "CIVITAI_SESSION_COOKIE"
                 THEN replacement ELSE lines[i]]
        ELSE Append(lines, replacement)

\* a variant that updates the .env file and leaves the cache file alone
SaveTokenToCache_EnvOnly(token, cf, ef) ==
    [cache_file |-> cf,
     dotenv_file |-> EnvFile(UpdateEnvLines(IF Exists(ef) THEN ef.lines ELSE <<>>,
                                            token))]

\* civitai_auth._save_token_to_cache
SaveTokenToCache(token, cf, ef) ==
    [cache_file |-> TextFile(token, FALSE),
     dotenv_file |-> EnvFile(UpdateEnvLines(IF Exists(ef) THEN ef.lines ELSE <<>>,
                                            token))]

\* the outcome of one call of a source that may touch the files
SourceResult(value, raised, started, cf, ef) ==
    [ret |-> value, raised |-> raised, started |-> started,
     warned |-> FALSE, cache_file |-> cf, dotenv_file |-> ef]

\* civitai_auth.get_cached_or_refresh_session_token; the login warns about a
\* token shorter than 100 characters (_extract_session_token) and returns it
GetCachedOrRefreshSessionToken(cf, ef, br, force_reauth) ==
    LET cf0 == IF force_reauth THEN NoFile ELSE cf
        cached_token == LoadCachedToken(cf0)
    IN  IF TokenTruthy(cached_token)
        THEN SourceResult(cached_token, FALSE, FALSE, cf0, ef)
        ELSE IF br.kind = "login_failed"
             THEN SourceResult(None, TRUE, TRUE, cf0, ef)
             ELSE LET saved == SaveTokenToCache(br.token, cf0, ef)
                  IN  [SourceResult(br.token, FALSE, TRUE,
                                    saved.cache_file, saved.dotenv_file)
                          EXCEPT !.warned = br.token.len < 100]

\* a variant that lets the failure of the login escape
GetSessionTokenFromAuth_Propagating(cf, ef, br) ==
    IF br.kind = "import_error"
    THEN SourceResult(None, TRUE, FALSE, cf, ef)
    ELSE GetCachedOrRefreshSessionToken(cf, ef, br, FALSE)

\* a variant that applies the length test of the other sources
GetSessionTokenFromAuth_Checked(cf, ef, br) ==
    IF br.kind = "import_error"
    THEN SourceResult(None, FALSE, FALSE, cf, ef)
    ELSE LET r == GetCachedOrRefreshSessionToken(cf, ef, br, FALSE)
         IN  IF r.raised \/ ~(TokenTruthy(r.ret) /\ r.ret.len > 100)
             THEN [r EXCEPT !.ret = None, !.raised = FALSE]
             ELSE r

\* CivitaiAPI._get_session_token_from_auth
GetSessionTokenFromAuth(cf, ef, br) ==
    IF br.kind = "import_error"
    THEN SourceResult(None, FALSE, FALSE, cf, ef)
    ELSE LET r == GetCachedOrRefreshSessionToken(cf, ef, br, FALSE)
         IN  IF r.raised THEN [r EXCEPT !.ret = None, !.raised = FALSE]
             ELSE r

\* one source consulted by the resolver and what it yielded
Consulted(source, value) == [source |-> source, yielded |-> value]

\* what one _get_auto_session_token call did
Resolution(value, raised, consulted, auth, cf, ef) ==
    [value |-> value, raised |-> raised, consulted |-> consulted,
     started |-> auth.started, warned |-> auth.warned,
     cache_file |-> cf, dotenv_file |-> ef]

\* a variant that evaluates every source before choosing
GetAutoSessionToken_Eager(cf, env, ef, br, cc) ==
    LET c == GetSessionTokenFromCache(cf)
        e == GetSessionTokenFromEnv(env)
        a == GetSessionTokenFromAuth(cf, ef, br)
        g == GetSessionTokenFromConfig(cc)
        all == << Consulted("cache", c), Consulted("env", e),
                  Consulted("auth", a.ret), Consulted("config", g) >>
        token == PyOr(c, PyOr(e, PyOr(a.ret, g)))
    IN  Resolution(IF TokenTruthy(token) THEN token ELSE None,
                   ~TokenTruthy(token), all, a,
                   a.cache_file, a.dotenv_file)

\* CivitaiAPI._get_auto_session_token
GetAutoSessionToken(cf, env, ef, br, cc) ==
    LET c == GetSessionTokenFromCache(cf)
        e == GetSessionTokenFromEnv(env)
        a == GetSessionTokenFromAuth(cf, ef, br)
        g == GetSessionTokenFromConfig(cc)
        upto1 == << Consulted("cache", c) >>
        upto2 == Append(upto1, Consulted("env", e))
        upto3 == Append(upto2, Consulted("auth", a.ret))
        upto4 == Append(upto3, Consulted("config", g))
        NotStarted == [started |-> FALSE, warned |-> FALSE]
    IN  IF TokenTruthy(c)
        THEN Resolution(c, FALSE, upto1, NotStarted, cf, ef)
        ELSE IF TokenTruthy(e)
        THEN Resolution(e, FALSE, upto2, NotStarted, cf, ef)
        ELSE IF a.raised
        THEN Resolution(None, TRUE, upto3, a,
                        a.cache_file, a.dotenv_file)
        ELSE IF TokenTruthy(a.ret)
        THEN Resolution(a.ret, FALSE, upto3, a,
                        a.cache_file, a.dotenv_file)
        ELSE IF TokenTruthy(g)
        THEN Resolution(g, FALSE, upto4, a,
                        a.cache_file, a.dotenv_file)
        ELSE Resolution(None, TRUE, upto4, a,
                        a.cache_file, a.dotenv_file)

\* one call of self._get_auto_session_token()
ResolveToken ==
    /\ Len(resolutions) < MaxResolutions
    /\ LET r == GetAutoSessionToken(cache_file, environ, dotenv_file,
                                    browser, config_cookie)
       IN  /\ resolutions' = Append(resolutions, r)
           /\ cache_file' = r.cache_file
           /\ dotenv_file' = r.dotenv_file
    /\ UNCHANGED <<environ, config_cookie, browser>>
    /\ UNCHANGED <<pagerVars, locatorVars, helperVars, scrapeVars, apiVars>>

\* the environment of the first call: the cache file missing or holding a
\* token; the .env file missing, without or with a CIVITAI_SESSION_COOKIE
\* line; each variable of os.environ unset or set; the login module missing,
\* the login failing, or the login returning its longest auth cookie

InitResolve ==
    /\ PagerIdle
    /\ ScrapeIdle
    /\ ApiIdle
    /\ LocatorIdle
    /\ HelperIdle
    /\ cache_file \in {NoFile} \cup { TextFile(tok, padded) :
                                        tok \in TokensOf("cached"),
                                        padded \in BOOLEAN }
    /\ dotenv_file \in
         { NoFile,
           EnvFile(<< EnvLine("CIVITAI_API_KEY", Token("key", 32), FALSE) >>),
           EnvFile(<< EnvLine("CIVITAI_SESSION_COOKIE", Token("stale", 101), FALSE),
                      EnvLine("CIVITAI_API_KEY", Token("key", 32), FALSE) >>) }
    /\ environ \in
         { [CIVITAI_SESSION_COOKIE |-> a, CIVITAI_SESSION_TOKEN |-> b] :
             a \in {None} \cup TokensOf("env_cookie"),
             b \in {None} \cup TokensOf("env_token") }
    /\ config_cookie \in TokensOf("config")
    /\ browser \in
         { [kind |-> "import_error", token |-> None],
           [kind |-> "login_failed", token |-> None] }
         \cup { [kind |-> "token", token |-> tok] : tok \in TokensOf("login") }
    /\ resolutions = <<>>

SpecResolve == InitResolve /\ [][ResolveToken]_vars

-----------------------------------------------------------------------------
(* Properties of the credential resolver *)

\* the call made by the step being taken
Resolving == Len(resolutions') = Len(resolutions) + 1

ThisResolution == resolutions'[Len(resolutions')]

SourceOrder == <<"cache", "env", "auth", "config">>

\* C11: every call consults the sources in the order cache file, environment,
\* automated acquisition, static configuration; it stops at the first source
\* that yields a token and returns that token, and the login is never started
\* when the cache file or the environment yielded.
C11_FixedOrderFirstWins ==
    \A k \in 1..Len(resolutions) :
        LET r == resolutions[k]
            n == Len(r.consulted)
        IN  /\ n \in 1..4
            /\ \A i \in 1..n : r.consulted[i].source = SourceOrder[i]
            /\ \A i \in 1..(n - 1) : ~TokenTruthy(r.consulted[i].yielded)
            /\ ~r.raised => /\ TokenTruthy(r.consulted[n].yielded)
                            /\ r.value = r.consulted[n].yielded
            /\ n <= 2 => ~r.started

\* the environment yields although a login would have succeeded and the
\* static configuration holds a valid token
C11_Witness ==
    /\ Len(resolutions) = 1
    /\ Len(resolutions[1].consulted) = 2
    /\ resolutions[1].value = Token("env_token", 101)
    /\ ~resolutions[1].started
    /\ browser.kind = "token" /\ browser.token = Token("login", 101)
    /\ config_cookie = Token("config", 101)

\* what the environment holds before a call, source by source
CacheHoldsNothing == GetSessionTokenFromCache(cache_file) = None

EnvHoldsNothing == GetSessionTokenFromEnv(environ) = None

ConfigHoldsNothing == GetSessionTokenFromConfig(config_cookie) = None

\* the login module is missing, or the login is started and fails
AcquisitionFails ==
    \/ browser.kind = "import_error"
    \/ /\ ~TokenTruthy(LoadCachedToken(cache_file))
       /\ browser.kind = "login_failed"

\* automated acquisition has nothing to give: it fails, or neither the token
\* cache it reads first nor the login gives a non-empty string
AcquisitionHoldsNothing ==
    \/ browser.kind = "import_error"
    \/ /\ ~TokenTruthy(LoadCachedToken(cache_file))
       /\ browser.kind = "login_failed" \/ ~TokenTruthy(browser.token)

\* C12: a call raises exactly when none of the four sources has a value; when
\* the cache file and the environment have none and automated acquisition
\* fails (exception or missing module), the static configuration is still
\* consulted and its token, if valid, is returned.
C12_RaisesIffAllSourcesEmpty ==
    [][Resolving =>
        LET r == ThisResolution
        IN  /\ r.raised <=> /\ CacheHoldsNothing
                            /\ EnvHoldsNothing
                            /\ AcquisitionHoldsNothing
                            /\ ConfigHoldsNothing
            /\ (CacheHoldsNothing /\ EnvHoldsNothing /\ AcquisitionFails)
                 => /\ Len(r.consulted) = 4
                    /\ r.consulted[3] = Consulted("auth", None)
                    /\ r.consulted[4].source = "config"
                    /\ ~ConfigHoldsNothing
                         => ~r.raised /\ r.value = config_cookie]_vars

\* the login failed and the call returned the configured token
C12_Witness ==
    /\ Len(resolutions) = 1
    /\ browser.kind = "login_failed"
    /\ resolutions[1].consulted[3] = Consulted("auth", None)
    /\ ~resolutions[1].raised
    /\ resolutions[1].value = Token("config", 101)

\* C13: a token read from the cache file, an environment variable or the
\* static configuration is returned by its source exactly when it is at least
\* 100 characters long.
C13_ThresholdInclusive ==
    [][Resolving =>
        LET r == ThisResolution
            n == Len(r.consulted)
            env_token == PyOr(environ["CIVITAI_SESSION_COOKIE"],
                              environ["CIVITAI_SESSION_TOKEN"])
        IN  /\ Exists(cache_file)
                 => (TokenTruthy(r.consulted[1].yielded)
                       <=> ReadStripped(cache_file).len >= 100)
            /\ (n >= 2 /\ TokenTruthy(env_token))
                 => (TokenTruthy(r.consulted[2].yielded)
                       <=> env_token.len >= 100)
            /\ n >= 4
                 => (TokenTruthy(r.consulted[4].yielded)
                       <=> config_cookie.len >= 100)]_vars

\* C14: with no cache file and no environment variable, a login that returns
\* a 40-character string makes the call return that string: it is warned
\* about as short, it is not rejected, and the static configuration is not
\* consulted.
C14_ShortAcquiredTokenUsed ==
    [][(/\ Resolving
        /\ ~Exists(cache_file)
        /\ \A n \in DOMAIN environ : environ[n] = None
        /\ browser.kind = "token"
        /\ browser.token.len = 40)
       => LET r == ThisResolution
          IN  /\ ~r.raised
              /\ r.value = browser.token
              /\ r.started /\ r.warned
              /\ \A i \in 1..Len(r.consulted) :
                     r.consulted[i].source # "config"]_vars

\* the 40-character login token was returned although the configuration
\* holds a valid token
C14_Witness ==
    /\ Len(resolutions) = 1
    /\ resolutions[1].value = Token("login", 40)
    /\ resolutions[1].warned
    /\ Len(resolutions[1].consulted) = 3
    /\ \A n \in DOMAIN environ : environ[n] = None
    /\ config_cookie = Token("config", 101)

\* a login returned a non-empty token in an earlier call
Acquired(j) ==
    /\ resolutions[j].started
    /\ browser.kind = "token"
    /\ TokenTruthy(browser.token)

-----------------------------------------------------------------------------
(* Response decoding: CivitaiAPI._make_request *)

\* Python's `in` raises TypeError on None and on numbers
IsContainer(x) == IsDict(x) \/ IsList(x)

\* key in x, for a dict (its keys) or a list (its elements)
PyIn(key, x) ==
    IF IsDict(x) THEN HasKey(x, key)
    ELSE \E i \in 1..Len(x.elems) : PyEq(x.elems[i], JStr(key))

\* a variant that hands back the whole body unless the full path is there
MakeRequest_RawOnPartial(resp) ==
    IF resp.kind = "raise" \/ resp.status # 200 THEN None
    ELSE LET data == resp.body
         IN  IF /\ IsDict(data) /\ HasKey(data, "result")
                /\ IsDict(Lookup(data, "result"))
                /\ HasKey(Lookup(data, "result"), "data")
                /\ IsDict(Lookup(Lookup(data, "result"), "data"))
                /\ HasKey(Lookup(Lookup(data, "result"), "data"), "json")
             THEN Lookup(Lookup(Lookup(data, "result"), "data"), "json")
             ELSE data

\* CivitaiAPI._make_request: the value returned for the response resp; an
\* exception raised inside the try block makes it return None
MakeRequest(resp) ==
    IF resp.kind = "raise" THEN None
    ELSE IF resp.status # 200 THEN None
    ELSE LET data == resp.body
         IN  IF ~IsContainer(data) THEN None
             ELSE IF ~PyIn("result", data) THEN data
             ELSE IF ~IsDict(data) THEN None
             ELSE LET result == Lookup(data, "result")
                  IN  IF ~IsContainer(result) THEN None
                      ELSE IF ~PyIn("data", result) THEN data
                      ELSE IF ~IsDict(result) THEN None
                      ELSE LET result_data == Lookup(result, "data")
                           IN  IF ~IsContainer(result_data) THEN None
                               ELSE IF ~PyIn("json", result_data)
                                    THEN result_data
                               ELSE IF ~IsDict(result_data) THEN None
                               ELSE Lookup(result_data, "json")

\* responses of self.session.get: a transport error, or a status with a
\* decoded body; the body may hold a result, the result a data, and the data
\* a json payload, each of them an object or something else
DecodeResponses ==
    LET JsonPayloads ==
            { JDict(<< <<"items", JList(ItemsOf(<<1, 2>>))>> >>),
              JList(ItemsOf(<<3>>)),
              JDict(<<>>),
              JNum(1),
              None }
        ResultDatas ==
            { JDict(<< <<"json", p>> >>) : p \in JsonPayloads }
            \cup { JDict(<< <<"meta", JDict(<<>>)>>, <<"json", p>> >>) :
                     p \in JsonPayloads }
            \cup { JDict(<< <<"items", JList(ItemsOf(<<4>>))>> >>),
                   JDict(<<>>),
                   JList(ItemsOf(<<5>>)),
                   JList(<<JStr("json")>>),
                   JNum(7),
                   None }
        Results ==
            { JDict(<< <<"data", d>> >>) : d \in ResultDatas }
            \cup { JDict(<< <<"error", JStr("x")>> >>),
                   JDict(<<>>),
                   JList(<<JStr("data")>>),
                   None }
        DecodedBodies ==
            { JDict(<< <<"result", r>> >>) : r \in Results }
            \cup { JDict(<< <<"id", JNum(1)>>, <<"result", r>> >>) : r \in Results }
            \cup { JDict(<< <<"error", JStr("x")>> >>),
                   JDict(<<>>),
                   JList(ItemsOf(<<6>>)),
                   JList(<<JStr("result")>>),
                   None }
    IN  { HttpResponse(status, body) :
            status \in {200, 404, 500}, body \in DecodedBodies }
        \cup {NetworkError}

\* self._make_request(endpoint, payload_data), answered by call.response
MakeRequestCall ==
    /\ ret = <<>>
    /\ ret' = <<MakeRequest(call.response)>>
    /\ UNCHANGED call
    /\ UNCHANGED <<pagerVars, locatorVars, credVars, scrapeVars, apiVars>>

SpecDecode ==
    /\ HelperInit({ [response |-> r] : r \in DecodeResponses })
    /\ [][MakeRequestCall]_vars

\* the body of a 200 response, when the call has been answered
Answered200 == ret # <<>> /\ call.response.kind = "http" /\ call.response.status = 200

Body == call.response.body

\* result.data is there, as an object inside an object inside an object
HasResultData ==
    /\ IsDict(Body) /\ HasKey(Body, "result")
    /\ IsDict(Lookup(Body, "result"))
    /\ HasKey(Lookup(Body, "result"), "data")
    /\ IsDict(Lookup(Lookup(Body, "result"), "data"))

ResultData == Lookup(Lookup(Body, "result"), "data")

\* the body is an object, and result and result.data are objects if there
WellShaped ==
    /\ IsDict(Body)
    /\ HasKey(Body, "result") =>
         /\ IsDict(Lookup(Body, "result"))
         /\ HasKey(Lookup(Body, "result"), "data")
              => IsDict(Lookup(Lookup(Body, "result"), "data"))

-----------------------------------------------------------------------------
(* Python strings with their characters: a str is the sequence of its       *)
(* one-character strings, so that lower(), `in`, rsplit and splitext are    *)
(* computed and not assumed.                                                *)

PStr(cs) == [t |-> "pystr", cs |-> cs]

\* c.lower() of one character
LowerChar(c) ==
    LET UpperCase == <<"A", "B", "C", "D", "E", "F", "G", "H", "I", "J", "K", "L", "M">>
                     \o <<"N", "O", "P", "Q", "R", "S", "T", "U", "V", "W", "X", "Y", "Z">>
        LowerCase == <<"a", "b", "c", "d", "e", "f", "g", "h", "i", "j", "k", "l", "m">>
                     \o <<"n", "o", "p", "q", "r", "s", "t", "u", "v", "w", "x", "y", "z">>
    IN  IF \E i \in 1..Len(UpperCase) : UpperCase[i] = c
        THEN LowerCase[CHOOSE i \in 1..Len(UpperCase) : UpperCase[i] = c]
        ELSE c

\* s.lower()
Lower(cs) == [i \in 1..Len(cs) |-> LowerChar(cs[i])]

\* sub in s
Contains(sub, cs) ==
    \E i \in 0..(Len(cs) - Len(sub)) : SubSeq(cs, i + 1, i + Len(sub)) = sub

\* bool(x) of an Optional[str]
StrTruthy(x) == x.t = "pystr" /\ Len(x.cs) > 0

\* x or default, for an Optional[str] x
StrOr(x, default) == IF StrTruthy(x) THEN x ELSE default

\* the string literals of the code, with their characters
Lit ==
    [lora |-> <<"l", "o", "r", "a">>,
     checkpoint |-> <<"c", "h", "e", "c", "k", "p", "o", "i", "n", "t">>,
     model |-> <<"m", "o", "d", "e", "l">>,
     textualinversion |-> <<"t", "e", "x", "t", "u", "a", "l">>
                          \o <<"i", "n", "v", "e", "r", "s", "i", "o", "n">>,
     embedding |-> <<"e", "m", "b", "e", "d", "d", "i", "n", "g">>,
     Unknown |-> <<"U", "n", "k", "n", "o", "w", "n">>,
     unknown |-> <<"u", "n", "k", "n", "o", "w", "n">>,
     dot_jpeg |-> <<".", "j", "p", "e", "g">>,
     dot_png |-> <<".", "p", "n", "g">>,
     dot_webp |-> <<".", "w", "e", "b", "p">>,
     dot_tif |-> <<".", "t", "i", "f">>,
     dot_mp4 |-> <<".", "m", "p", "4">>,
     image_jpeg |-> <<"i", "m", "a", "g", "e", "/", "j", "p", "e", "g">>,
     DetailTweakerLoRA |-> <<"D", "e", "t", "a", "i", "l", " ", "T", "w", "e",
                             "a", "k", "e", "r", " ", "L", "o", "R", "A">>]

-----------------------------------------------------------------------------
(* Resource classification: CivitaiPrivateScraper._get_resource_type *)

\* a variant that looks at the name before the type fields
GetResourceType_NameFirst(res) ==
    LET name == GetOr(res, "modelName", PStr(<<>>))
        type_ == IF StrTruthy(Get(res, "modelType")) THEN Get(res, "modelType")
                 ELSE Get(res, "type")
    IN  IF name.t # "pystr" THEN Raised
        ELSE IF Contains(Lit.lora, Lower(name.cs)) THEN PStr(Lit.lora)
        ELSE IF Contains(Lit.checkpoint, Lower(name.cs)) THEN PStr(Lit.checkpoint)
        ELSE IF StrTruthy(type_) THEN PStr(Lower(type_.cs))
        ELSE PStr(Lit.model)

\* CivitaiPrivateScraper._get_resource_type; None.lower() raises
GetResourceType(res) ==
    LET model_type == Get(res, "modelType")
        type_ == Get(res, "type")
        name == GetOr(res, "modelName", PStr(<<>>))
    IN  IF StrTruthy(model_type) THEN PStr(Lower(model_type.cs))
        ELSE IF StrTruthy(type_) THEN PStr(Lower(type_.cs))
        ELSE IF name.t # "pystr" THEN Raised
        ELSE LET name_res == Lower(name.cs)
             IN  IF Contains(Lit.lora, name_res) THEN PStr(Lit.lora)
                 ELSE IF Contains(Lit.checkpoint, name_res) THEN PStr(Lit.checkpoint)
                 ELSE PStr(Lit.model)

\* a dict holding the given fields, those that are Absent left out
DictOf(fields) ==
    LET RECURSIVE Build(_)
        Build(k) ==
            IF k = 0 THEN <<>>
            ELSE IF fields[k][2] = Absent THEN Build(k - 1)
            ELSE Append(Build(k - 1), fields[k])
    IN  JDict(Build(Len(fields)))

\* resources with each field absent, null, empty or set
ClassifiedResources ==
    LET ModelTypeValues ==
            { Absent, None, PStr(<<>>),
              PStr(<<"L", "O", "R", "A">>),
              PStr(<<"C", "h", "e", "c", "k", "p", "o", "i", "n", "t">>) }
        TypeValues ==
            { Absent, None, PStr(<<>>),
              PStr(<<"C", "h", "e", "c", "k", "p", "o", "i", "n", "t">>),
              PStr(<<"C", "H", "E", "C", "K", "P", "O", "I", "N", "T">>),
              PStr(<<"c", "h", "e", "c", "k", "p", "o", "i", "n", "t">>),
              PStr(<<"c", "H", "e", "C", "k", "P", "o", "I", "n", "T">>),
              PStr(<<"l", "o", "r", "a">>),
              PStr(<<"T", "e", "x", "t", "u", "a", "l", "I", "n", "v">>
                   \o <<"e", "r", "s", "i", "o", "n">>) }
        NameValues ==
            { Absent, None, PStr(<<>>), PStr(Lit.DetailTweakerLoRA),
              PStr(<<"F", "l", "o", "r", "a", "l">>),
              PStr(<<"M", "y", " ", "C", "h", "e", "c", "k", "p", "o", "i", "n", "t">>),
              PStr(<<"S", "D", "X", "L">>) }
    IN  { DictOf(<< <<"modelType", mt>>, <<"type", ty>>, <<"modelName", nm>> >>) :
            mt \in ModelTypeValues, ty \in TypeValues, nm \in NameValues }

\* self._get_resource_type(call.res)
GetResourceTypeCall ==
    /\ ret = <<>>
    /\ ret' = <<GetResourceType(call.res)>>
    /\ UNCHANGED call
    /\ UNCHANGED <<pagerVars, locatorVars, credVars, scrapeVars, apiVars>>

SpecClassify ==
    /\ HelperInit({ [res |-> r] : r \in ClassifiedResources })
    /\ [][GetResourceTypeCall]_vars

\* the explicit type of a resource: the first non-empty string among its
\* modelType and type fields
HasExplicitType(res) ==
    StrTruthy(Get(res, "modelType")) \/ StrTruthy(Get(res, "type"))

ExplicitType(res) ==
    IF StrTruthy(Get(res, "modelType")) THEN Get(res, "modelType")
    ELSE Get(res, "type")

\* C17: a resource without type field named "Detail Tweaker LoRA" is a lora;
\* a resource whose explicit type is "Checkpoint" in any letter case is a
\* checkpoint whatever its name; and whenever an explicit type is there the
\* class is that type in lower case, so the name decides only without one.
C17_ExplicitTypeBeforeName ==
    ret # <<>> =>
        LET res == call.res
        IN  /\ (/\ ~HasKey(res, "modelType") /\ ~HasKey(res, "type")
                /\ Get(res, "modelName") = PStr(Lit.DetailTweakerLoRA))
                 => ret[1] = PStr(Lit.lora)
            /\ (HasExplicitType(res)
                  /\ Lower(ExplicitType(res).cs) = Lit.checkpoint)
                 => ret[1] = PStr(Lit.checkpoint)
            /\ HasExplicitType(res)
                 => ret[1] = PStr(Lower(ExplicitType(res).cs))

\* an explicit Checkpoint type won over a name that says lora
C17_Witness ==
    /\ ret = <<PStr(Lit.checkpoint)>>
    /\ ~HasKey(call.res, "modelType")
    /\ Get(call.res, "type") = PStr(<<"C", "H", "E", "C", "K", "P", "O", "I", "N", "T">>)
    /\ Get(call.res, "modelName") = PStr(Lit.DetailTweakerLoRA)

-----------------------------------------------------------------------------
(* Resource merging: CivitaiPrivateScraper._process_resources and          *)
(* CivitaiImage._process_resources.  Of a lora, a model or an embedding    *)
(* entry the name and the version name are kept; weights and ids are       *)
(* copied through by the code and left out here.                           *)

\* longest resources list explored
MaxResources == 2

Entry(name, version_name) == [name |-> name, version_name |-> version_name]

\* one iteration of the loop of CivitaiPrivateScraper._process_resources
LegacyStep(acc, res) ==
    LET type_lower == GetResourceType(res)
        name_res == Get(res, "modelName")
        version_name == Get(res, "versionName")
    IN  IF acc.raised \/ type_lower = Raised THEN [acc EXCEPT !.raised = TRUE]
        ELSE IF type_lower = PStr(Lit.lora)
        THEN [acc EXCEPT !.loras = Append(@, Entry(name_res, version_name))]
        ELSE IF type_lower = PStr(Lit.checkpoint)
        THEN [acc EXCEPT !.model_name = name_res,
                         !.model_version = StrOr(version_name, PStr(<<>>))]
        ELSE IF /\ type_lower = PStr(Lit.model)
                /\ ~StrTruthy(acc.model_name) \/ acc.model_name = PStr(Lit.Unknown)
        THEN [acc EXCEPT !.model_name = name_res,
                         !.model_version = StrOr(version_name, PStr(<<>>))]
        ELSE acc

\* CivitaiPrivateScraper._process_resources
LegacyProcessResources(resources) ==
    LET RECURSIVE Loop(_)
        Loop(k) ==
            IF k = 0
            THEN [model_name |-> PStr(Lit.Unknown), model_version |-> PStr(<<>>),
                  loras |-> <<>>, raised |-> FALSE]
            ELSE LegacyStep(Loop(k - 1), resources[k])
    IN  Loop(Len(resources))

\* one iteration of the first loop of CivitaiImage._process_resources
ImageStep(acc, resource) ==
    LET model_type == GetOr(resource, "modelType", PStr(<<>>))
        type_ == GetOr(resource, "type", PStr(<<>>))
        \* resource.get("modelType", "").lower(), else the same of "type"
        resource_type ==
            IF model_type.t # "pystr" THEN Raised
            ELSE IF Len(model_type.cs) > 0 THEN PStr(Lower(model_type.cs))
            ELSE IF type_.t # "pystr" THEN Raised
            ELSE PStr(Lower(type_.cs))
        model_name == GetOr(resource, "modelName", PStr(Lit.Unknown))
        version_name == GetOr(resource, "versionName", PStr(<<>>))
    IN  IF acc.raised \/ resource_type = Raised THEN [acc EXCEPT !.raised = TRUE]
        ELSE IF resource_type = PStr(Lit.lora)
        THEN [acc EXCEPT !.loras = Append(@, Entry(model_name, version_name))]
        ELSE IF resource_type = PStr(Lit.checkpoint)
        THEN [acc EXCEPT !.model = model_name,
                         !.model_version = StrOr(version_name, PStr(Lit.Unknown)),
                         !.models = Append(@, Entry(model_name, version_name))]
        ELSE IF resource_type = PStr(Lit.textualinversion)
        THEN [acc EXCEPT !.embeddings = Append(@, Entry(model_name, version_name))]
        ELSE IF model_name.t # "pystr" THEN [acc EXCEPT !.raised = TRUE]
        ELSE IF Contains(Lit.embedding, Lower(model_name.cs))
        THEN [acc EXCEPT !.embeddings = Append(@, Entry(model_name, version_name))]
        ELSE acc

\* CivitaiImage._process_resources, on a freshly constructed image
ImageProcessResources(resources) ==
    LET RECURSIVE Loop(_)
        Loop(k) ==
            IF k = 0
            THEN [model |-> PStr(Lit.Unknown), model_version |-> PStr(Lit.Unknown),
                  models |-> <<>>, loras |-> <<>>, embeddings |-> <<>>,
                  raised |-> FALSE]
            ELSE ImageStep(Loop(k - 1), resources[k])
        out == Loop(Len(resources))
        \* the trailing loop: the first resource whose type is "checkpoint"
        hits == { i \in 1..Len(resources) :
                    Get(resources[i], "type") = PStr(Lit.checkpoint) }
        first == IF hits = {} THEN 0 ELSE CHOOSE i \in hits : \A j \in hits : i <= j
    IN  IF ~out.raised /\ out.models = <<>> /\ out.model = PStr(Lit.Unknown)
           /\ first # 0
        THEN [out EXCEPT !.model = GetOr(resources[first], "modelName",
                                         PStr(Lit.Unknown))]
        ELSE out

\* self._process_resources(call.resources), on both classes
ProcessResourcesCall ==
    /\ ret = <<>>
    /\ ret' = << [legacy |-> LegacyProcessResources(call.resources),
                  image |-> ImageProcessResources(call.resources)] >>
    /\ UNCHANGED call
    /\ UNCHANGED <<pagerVars, locatorVars, credVars, scrapeVars, apiVars>>

\* lists of resources with and without type, name and version
SpecMerge ==
    /\ HelperInit(
         LET MergedResources ==
                 { DictOf(<< <<"modelType", mt>>, <<"type", ty>>,
                             <<"modelName", nm>>, <<"versionName", vn>> >>) :
                     mt \in { Absent, PStr(<<"L", "O", "R", "A">>) },
                     ty \in { Absent, PStr(Lit.checkpoint),
                              PStr(<<"C", "h", "e", "c", "k", "p", "o", "i", "n", "t">>),
                              PStr(Lit.lora) },
                     nm \in { PStr(<<"A">>), PStr(<<"B">>) },
                     vn \in { Absent, PStr(<<"v", "1">>), PStr(<<"v", "2">>) } }
         IN  { [resources |-> rs] :
                 rs \in UNION { [1..n -> MergedResources] :
                                  n \in 0..MaxResources } })
    /\ [][ProcessResourcesCall]_vars

\* positions of the checkpoint-typed resources
Checkpoints(resources) ==
    { i \in 1..Len(resources) :
        /\ HasExplicitType(resources[i])
        /\ Lower(ExplicitType(resources[i]).cs) = Lit.checkpoint }

\* C18: when the resources list holds more than one checkpoint-typed
\* resource, the primary model name and version of the merged record are
\* those of the first of them in list order.
C18_FirstCheckpointWins ==
    (ret # <<>> /\ Cardinality(Checkpoints(call.resources)) > 1) =>
        LET cps == Checkpoints(call.resources)
            first == call.resources[CHOOSE i \in cps : \A j \in cps : i <= j]
        IN  /\ ret[1].legacy.model_name = Get(first, "modelName")
            /\ ret[1].image.model = Get(first, "modelName")
            /\ HasKey(first, "versionName")
                 => /\ ret[1].legacy.model_version = Get(first, "versionName")
                    /\ ret[1].image.model_version = Get(first, "versionName")

-----------------------------------------------------------------------------
(* File names: CivitaiPrivateScraper._sanitize_filename_extension and      *)
(* CivitaiImage._get_safe_filename, with the MIME table of each class.     *)

\* number of successive normalisations of one name
MaxPasses == 2

\* s.rfind(c), counted from 1; 0 when c is not in s
RFind(c, cs) ==
    LET hits == { i \in 1..Len(cs) : cs[i] = c }
    IN  IF hits = {} THEN 0 ELSE CHOOSE i \in hits : \A j \in hits : j <= i

\* os.path.splitext(p): the extension starts at the last dot, unless that
\* dot is before the last "/" or has only dots between that "/" and itself
SplitExt(cs) ==
    LET sepIndex == RFind("/", cs)
        dotIndex == RFind(".", cs)
    IN  IF dotIndex > sepIndex
           /\ \E k \in (sepIndex + 1)..(dotIndex - 1) : cs[k] # "."
        THEN [root |-> SubSeq(cs, 1, dotIndex - 1),
              ext |-> SubSeq(cs, dotIndex, Len(cs))]
        ELSE [root |-> cs, ext |-> <<>>]

\* CivitaiPrivateScraper._get_extension_from_mime
GetExtensionFromMime(mime_type) ==
    IF ~StrTruthy(mime_type) THEN Lit.dot_jpeg
    ELSE LET mime_lower == Lower(mime_type.cs)
         IN  IF Contains(<<"p", "n", "g">>, mime_lower) THEN Lit.dot_png
             ELSE IF Contains(<<"w", "e", "b", "p">>, mime_lower) THEN Lit.dot_webp
             ELSE IF Contains(<<"t", "i", "f", "f">>, mime_lower)
                     \/ Contains(<<"t", "i", "f">>, mime_lower) THEN Lit.dot_tif
             ELSE IF Contains(<<"m", "p", "4">>, mime_lower) THEN Lit.dot_mp4
             ELSE IF Contains(<<"j", "p", "e", "g">>, mime_lower)
                     \/ Contains(<<"j", "p", "g">>, mime_lower) THEN Lit.dot_jpeg
             ELSE Lit.dot_jpeg

\* CivitaiPrivateScraper._sanitize_filename_extension
SanitizeFilenameExtension(name, mime_type) ==
    IF ~StrTruthy(name)
    THEN PStr(Lit.unknown \o GetExtensionFromMime(mime_type))
    ELSE LET target_ext == GetExtensionFromMime(mime_type)
             split == SplitExt(name.cs)
             base_name == split.root
             current_ext == Lower(split.ext)
         IN  IF current_ext = <<>> THEN PStr(base_name \o target_ext)
             ELSE IF current_ext = target_ext THEN name
             ELSE PStr(base_name \o target_ext)

\* CivitaiImage._get_extension_from_mime
ImageGetExtensionFromMime(mime_type) ==
    IF ~StrTruthy(mime_type) THEN Lit.dot_jpeg
    ELSE LET mime_lower == Lower(mime_type.cs)
         IN  IF Contains(<<"p", "n", "g">>, mime_lower) THEN Lit.dot_png
             ELSE IF Contains(<<"w", "e", "b", "p">>, mime_lower) THEN Lit.dot_webp
             ELSE IF Contains(<<"t", "i", "f", "f">>, mime_lower)
                     \/ Contains(<<"t", "i", "f">>, mime_lower) THEN Lit.dot_tif
             ELSE IF Contains(<<"m", "p", "4">>, mime_lower) THEN Lit.dot_mp4
             ELSE IF Contains(<<"j", "p", "e", "g">>, mime_lower)
                     \/ Contains(<<"j", "p", "g">>, mime_lower) THEN Lit.dot_jpeg
             ELSE Lit.dot_jpeg

\* name.rsplit(".", 1) if "." in name else (name, "")
RSplitDot(cs) ==
    LET dotIndex == RFind(".", cs)
    IN  IF dotIndex = 0 THEN [root |-> cs, ext |-> <<>>]
        ELSE [root |-> SubSeq(cs, 1, dotIndex - 1),
              ext |-> SubSeq(cs, dotIndex + 1, Len(cs))]

\* CivitaiImage._get_safe_filename, for self.image_name and self.mime_type
GetSafeFilename(image_name, mime_type) ==
    LET target_ext == ImageGetExtensionFromMime(mime_type)
        split == RSplitDot(image_name.cs)
        base_name == split.root
        current_ext == Lower(split.ext)
    IN  IF current_ext = <<>> THEN PStr(base_name \o target_ext)
        ELSE IF current_ext = target_ext THEN image_name
        ELSE PStr(base_name \o target_ext)

\* names: what is before the extension, and the extension as it comes
FileNames ==
    LET BaseNames ==
            { <<>>, <<"i", "m", "g">>, <<"a", ".", "b">>, <<".", "h", "i", "d">>,
              <<"d", ".", "x", "/", "f">>, <<".", ".">> }
        NameExtensions ==
            { <<>>, <<".">>, Lit.dot_png, <<".", "P", "N", "G">>, Lit.dot_jpeg, <<".", "J", "P", "E", "G">>,
              <<".", "j", "p", "g">>, Lit.dot_webp, Lit.dot_tif, <<".", "t", "i", "f", "f">>, Lit.dot_mp4,
              <<".", "t", "x", "t">> }
    IN  { PStr(b \o x) : b \in BaseNames, x \in NameExtensions }

MimeTypes ==
    { None, PStr(<<>>),
      PStr(<<"i", "m", "a", "g", "e", "/", "p", "n", "g">>), PStr(<<"I", "M", "A", "G", "E", "/", "P", "N", "G">>),
      PStr(<<"i", "m", "a", "g", "e", "/", "w", "e", "b", "p">>), PStr(<<"i", "m", "a", "g", "e", "/", "t", "i", "f", "f">>),
      PStr(<<"v", "i", "d", "e", "o", "/", "m", "p", "4">>), PStr(<<"i", "m", "a", "g", "e", "/", "j", "p", "e", "g">>),
      PStr(<<"i", "m", "a", "g", "e", "/", "j", "p", "g">>), PStr(<<"i", "m", "a", "g", "e", "/", "g", "i", "f">>) }

\* self._sanitize_filename_extension, applied to the name and then to its
\* own result
SanitizeCall ==
    /\ Len(ret) < MaxPasses
    /\ ret' = Append(ret, SanitizeFilenameExtension(
                              IF ret = <<>> THEN call.name ELSE ret[Len(ret)],
                              call.mime_type))
    /\ UNCHANGED call
    /\ UNCHANGED <<pagerVars, locatorVars, credVars, scrapeVars, apiVars>>

SpecSanitize ==
    /\ HelperInit({ [name |-> n, mime_type |-> m] :
                    n \in FileNames, m \in MimeTypes })
    /\ [][SanitizeCall]_vars

\* self._get_safe_filename()
GetSafeFilenameCall ==
    /\ ret = <<>>
    /\ ret' = <<GetSafeFilename(call.name, call.mime_type)>>
    /\ UNCHANGED call
    /\ UNCHANGED <<pagerVars, locatorVars, credVars, scrapeVars, apiVars>>

\* CivitaiImage.__init__: mime_type or "image/jpeg"

SpecSafeName ==
    /\ HelperInit({ [name |-> n,
                   mime_type |-> StrOr(m, PStr(Lit.image_jpeg))] :
                    n \in FileNames, m \in MimeTypes })
    /\ [][GetSafeFilenameCall]_vars

\* C19: normalising a name that is already the result of a normalisation
\* with the same MIME type changes nothing.
C19_SanitizeIdempotent ==
    \A i \in 2..Len(ret) : ret[i] = ret[i - 1]

\* the MIME-implied extension, as the table of the image class gives it
ImpliedExtension == ImageGetExtensionFromMime(call.mime_type)

\* C20: a name whose extension equals the MIME-implied extension, ignoring
\* letter case, comes back unchanged.
C20_MatchingExtensionKept ==
    (ret # <<>>
       /\ Len(call.name.cs) > Len(ImpliedExtension)
       /\ Lower(SubSeq(call.name.cs,
                       Len(call.name.cs) - Len(ImpliedExtension) + 1,
                       Len(call.name.cs))) = ImpliedExtension)
    => ret[1] = call.name

-----------------------------------------------------------------------------
(* Author resolution: the `or` chain of CivitaiPrivateScraper._merge_data  *)
(* and of CivitaiImage.from_collection_item.                               *)

\* the chain without its last operand: the account's username, whatever
\* it is, when the first two candidates are empty
MergeDataAuthor_NoFallback(collection_item) ==
    LET username == Get(collection_item, "username")
        user == PyGet(PyGet(collection_item, "user", EmptyDict),
                      "username", None)
        account == PyGet(PyGet(collection_item, "account", EmptyDict),
                         "username", None)
    IN  IF StrTruthy(username) THEN username
        ELSE IF user.t = "exception" THEN user
        ELSE IF StrTruthy(user) THEN user
        ELSE account

\* collection_item.get("username")
\*   or collection_item.get("user", {}).get("username")
\*   or collection_item.get("account", {}).get("username")
\*   or "Unknown"
MergeDataAuthor(collection_item) ==
    LET username == Get(collection_item, "username")
        user == PyGet(PyGet(collection_item, "user", EmptyDict),
                      "username", None)
        account == PyGet(PyGet(collection_item, "account", EmptyDict),
                         "username", None)
    IN  IF StrTruthy(username) THEN username
        ELSE IF user.t = "exception" THEN user
        ELSE IF StrTruthy(user) THEN user
        ELSE IF account.t = "exception" THEN account
        ELSE IF StrTruthy(account) THEN account
        ELSE PStr(Lit.Unknown)

\* image.author = (item.get("username") or item.get("user", {}).get("username")
\*                 or item.get("account", {}).get("username") or "Unknown")
FromCollectionItemAuthor(item) ==
    LET username == Get(item, "username")
        user == PyGet(PyGet(item, "user", EmptyDict), "username", None)
        account == PyGet(PyGet(item, "account", EmptyDict), "username", None)
    IN  IF StrTruthy(username) THEN username
        ELSE IF user.t = "exception" THEN user
        ELSE IF StrTruthy(user) THEN user
        ELSE IF account.t = "exception" THEN account
        ELSE IF StrTruthy(account) THEN account
        ELSE PStr(Lit.Unknown)

\* both author resolutions, applied to call.item
AuthorCall ==
    /\ ret = <<>>
    /\ ret' = <<[legacy |-> MergeDataAuthor(call.item),
                 image |-> FromCollectionItemAuthor(call.item)]>>
    /\ UNCHANGED call
    /\ UNCHANGED <<pagerVars, locatorVars, credVars, scrapeVars, apiVars>>

\* list items whose username is absent, null, empty or set, and whose user
\* and account objects are absent, null, empty, or hold such a username
SpecAuthor ==
    /\ HelperInit(
         LET Objects(name) ==
                 { Absent, None, EmptyDict }
                 \cup { JDict(<< <<"username", u>> >>) :
                          u \in { None, PStr(<<>>), PStr(name) } }
         IN  { [item |-> DictOf(<< <<"id", JNum(1)>>, <<"username", un>>,
                                   <<"user", us>>, <<"account", ac>> >>)] :
                 un \in { Absent, None, PStr(<<>>), PStr(<<"a", "n", "n">>) },
                 us \in Objects(<<"b", "o", "b">>),
                 ac \in Objects(<<"c", "y">>) })
    /\ [][AuthorCall]_vars

\* the first non-empty of the three candidate names of an item, where a
\* missing or null field or object counts as empty; <<>> when there is none
NameIn(obj) ==
    IF IsDict(obj) /\ HasKey(obj, "username")
       /\ StrTruthy(Lookup(obj, "username"))
    THEN Lookup(obj, "username").cs
    ELSE <<>>

FirstAuthorName(item) ==
    IF NameIn(item) # <<>> THEN NameIn(item)
    ELSE IF NameIn(Get(item, "user")) # <<>> THEN NameIn(Get(item, "user"))
    ELSE IF NameIn(Get(item, "account")) # <<>>
    THEN NameIn(Get(item, "account"))
    ELSE Lit.Unknown

\* C21: for every list item, whichever of username, user, account (or their
\* username) is absent or null, both author resolutions return without
\* raising the first non-empty candidate name, or "Unknown" when there is
\* none, and so never the empty string.
C21_AuthorNeverRaises ==
    ret # <<>> =>
        /\ ret[1].legacy.t = "pystr"
        /\ ret[1].image.t = "pystr"
        /\ ret[1].legacy.cs = FirstAuthorName(call.item)
        /\ ret[1].image.cs = FirstAuthorName(call.item)
        /\ ret[1].legacy.cs # <<>>

-----------------------------------------------------------------------------
(* The harvest: CivitaiPrivateScraper.scrape with _merge_data and          *)
(* CivitaiAPI.fetch_image_tags.                                            *)

SleepMs == 200

\* CivitaiPrivateScraper._merge_data: the merged record, or the exception
\* that leaves it
MergeData(collection_item, generation_data) ==
    LET Format(x) == IF x.t = "pystr" THEN x.cs ELSE <<"N", "o", "n", "e">>
        \* f"https://image.civitai.com/xG1nkqKTMzGDvpLrqFT7WA/{image_hash}
        \*   /original=true/quality=90/{safe_name}"
        ImageUrl(image_hash, name) ==
            PStr(<<"h", "t", "t", "p", "s", ":", "/", "/", "i", "m", "a", "g",
                   "e", ".", "c", "i", "v", "i", "t", "a", "i", ".", "c", "o",
                   "m", "/", "x", "G", "1", "n", "k", "q", "K", "T", "M", "z",
                   "G", "D", "v", "p", "L", "r", "q", "F", "T", "7", "W", "A",
                   "/">>
                 \o Format(image_hash)
                 \o <<"/", "o", "r", "i", "g", "i", "n", "a", "l", "=", "t",
                      "r", "u", "e", "/", "q", "u", "a", "l", "i", "t", "y",
                      "=", "9", "0", "/">>
                 \o Format(name))
        safe_name ==
            SanitizeFilenameExtension(
                Get(collection_item, "name"),
                GetOr(collection_item, "mimeType", PStr(Lit.image_jpeg)))
        author_name == MergeDataAuthor(collection_item)
        got_meta == PyGet(generation_data, "meta", None)
        meta == IF Truthy(got_meta) THEN got_meta ELSE EmptyDict
        resources == PyGet(generation_data, "resources", JList(<<>>))
        processed == IF IsList(resources)
                     THEN LegacyProcessResources(resources.elems)
                     ELSE [raised |-> TRUE]
    IN  IF \/ author_name.t = "exception"
           \/ got_meta.t = "exception"
           \/ ~IsDict(meta)
           \/ processed.raised
        THEN Raised
        ELSE [t |-> "merged",
              image_id |-> Get(collection_item, "id"),
              image_url |-> ImageUrl(Get(collection_item, "url"), safe_name),
              author |-> author_name,
              tags |-> JList(<<>>),
              prompt |-> GetOr(meta, "prompt", PStr(<<>>)),
              negative_prompt |-> GetOr(meta, "negativePrompt", PStr(<<>>)),
              model |-> processed.model_name,
              model_version |-> processed.model_version,
              loras |-> processed.loras,
              sampler |-> GetOr(meta, "sampler", PStr(<<>>)),
              steps |-> GetOr(meta, "steps", PStr(<<>>)),
              cfg_scale |-> GetOr(meta, "cfgScale", PStr(<<>>)),
              seed |-> GetOr(meta, "seed", PStr(<<>>)),
              raw_meta_json |-> DictSet(meta, "resources", resources)]

\* CivitaiAPI.fetch_image_tags on the decoded response: the names of the
\* tags by descending score (stable), without the empty names
FetchImageTags(decoded) ==
    IF ~(Truthy(decoded) /\ IsList(decoded)) THEN JList(<<>>)
    ELSE IF \E k \in 1..Len(decoded.elems) : ~IsDict(decoded.elems[k])
    THEN Raised
    ELSE LET Score(tag) == GetOr(tag, "score", JNum(0)).n
             RECURSIVE Sorted(_)
             Sorted(rest) ==
                 IF rest = <<>> THEN <<>>
                 ELSE LET top == CHOOSE i \in 1..Len(rest) :
                                   /\ \A j \in 1..Len(rest) :
                                        Score(rest[j]) <= Score(rest[i])
                                   /\ \A j \in 1..(i - 1) :
                                        Score(rest[j]) < Score(rest[i])
                      IN  <<rest[top]>>
                          \o Sorted(SubSeq(rest, 1, top - 1)
                                    \o SubSeq(rest, top + 1, Len(rest)))
             sorted_tags == Sorted(decoded.elems)
             RECURSIVE Names(_)
             Names(k) ==
                 IF k = 0 THEN <<>>
                 ELSE IF StrTruthy(Get(sorted_tags[k], "name"))
                 THEN Append(Names(k - 1), Get(sorted_tags[k], "name"))
                 ELSE Names(k - 1)
         IN  JList(Names(Len(sorted_tags)))

WireEvent(op, pos, id, data, ms) ==
    [op |-> op, pos |-> pos, id |-> id, data |-> data, ms |-> ms]

\* the body of `if details:` and the sleep after it: _merge_data, the tag
\* request answered by tags_resp, the append
MergedItem(item, pos, details, tags_resp) ==
    LET img_id == Get(item, "id")
        merged == MergeData(item, details)
        tags == FetchImageTags(MakeRequest(tags_resp))
        detail_ev == WireEvent("detail", pos, img_id, details, 0)
        tags_ev == WireEvent("tags", pos, img_id, tags, 0)
        sleep_ev == WireEvent("sleep", pos, img_id, None, SleepMs)
    IN  IF merged.t = "exception"
        THEN [events |-> <<detail_ev>>, appended |-> <<>>, raised |-> TRUE]
        ELSE IF tags.t = "exception"
        THEN [events |-> <<detail_ev, tags_ev>>, appended |-> <<>>,
              raised |-> TRUE]
        ELSE [events |-> <<detail_ev, tags_ev, sleep_ev>>,
              appended |-> <<[merged EXCEPT !.tags = tags]>>,
              raised |-> FALSE]

\* a failed detail fetch ends the harvest
ProcessItem_AbortOnFailure(item, pos, detail_resp, tags_resp) ==
    LET details == MakeRequest(detail_resp)
    IN  IF ~Truthy(details)
        THEN [events |-> <<WireEvent("detail", pos, Get(item, "id"), details, 0)>>,
              appended |-> <<>>, raised |-> TRUE]
        ELSE MergedItem(item, pos, details, tags_resp)

\* the sleep sits inside `if details:`
ProcessItem_SleepOnSuccessOnly(item, pos, detail_resp, tags_resp) ==
    LET details == MakeRequest(detail_resp)
    IN  IF ~Truthy(details)
        THEN [events |-> <<WireEvent("detail", pos, Get(item, "id"), details, 0)>>,
              appended |-> <<>>, raised |-> FALSE]
        ELSE MergedItem(item, pos, details, tags_resp)

\* one iteration of scrape's loop over collection_items, the detail request
\* answered by detail_resp and the tag request by tags_resp: what goes over
\* the wire, what is appended to curated_data, and whether it raised
ProcessItem(item, pos, detail_resp, tags_resp) ==
    LET img_id == Get(item, "id")
        details == MakeRequest(detail_resp)
    IN  IF img_id.t # "num"
        THEN [events |-> <<>>, appended |-> <<>>, raised |-> TRUE]
        ELSE IF ~Truthy(details)
        THEN [events |-> <<WireEvent("detail", pos, img_id, details, 0),
                           WireEvent("sleep", pos, img_id, None, SleepMs)>>,
              appended |-> <<>>, raised |-> FALSE]
        ELSE MergedItem(item, pos, details, tags_resp)

\* scrape after fetch_collection_items has returned (or raised)
ScrapeBegin ==
    /\ scrape_pc = "list"
    /\ pc = "done"
    /\ scrape_pc' = IF outcome = "raised" THEN "raised"
                    ELSE IF items = <<>> THEN "done"
                    ELSE "detail"
    /\ idx' = IF outcome # "raised" /\ items # <<>> THEN 1 ELSE idx
    /\ UNCHANGED <<curated_data, wire>>
    /\ UNCHANGED <<pagerVars, locatorVars, credVars, helperVars, apiVars>>

\* one iteration of the loop; the return follows the last one
ScrapeItem(detail_resp, tags_resp) ==
    /\ scrape_pc = "detail"
    /\ LET step == ProcessItem(items[idx], idx, detail_resp, tags_resp)
       IN  /\ wire' = wire \o step.events
           /\ curated_data' = curated_data \o step.appended
           /\ scrape_pc' = IF step.raised THEN "raised"
                           ELSE IF idx = Len(items) THEN "done"
                           ELSE "detail"
           /\ idx' = IF step.raised THEN idx ELSE idx + 1
    /\ UNCHANGED <<pagerVars, locatorVars, credVars, helperVars, apiVars>>

\* {"result": {"data": {"json": json}}}
Enveloped(json) ==
    JDict(<< <<"result", JDict(<< <<"data", JDict(<< <<"json", json>> >>)>> >>)>> >>)

\* the list item with id i of the harvested collection: the fields that
\* _merge_data reads, present, absent, empty or null from item to item
CollectionItem(i) ==
    LET Named(name) == JDict(<< <<"username", PStr(name)>> >>)
        shape == i % 6
        fields ==
            CASE shape = 1 ->
                   << <<"url", PStr(<<"h", "1">>)>>,
                      <<"name", PStr(<<"i", "m", "g", ".", "P", "N", "G">>)>>,
                      <<"mimeType", PStr(<<"i", "m", "a", "g", "e", "/", "p", "n", "g">>)>>,
                      <<"username", PStr(<<"a", "n", "n">>)>>,
                      <<"user", Named(<<"b", "o", "b">>)>> >>
              [] shape = 2 ->
                   << <<"url", PStr(<<"h", "2">>)>>,
                      <<"name", None>>,
                      <<"user", Named(<<"b", "o", "b">>)>>,
                      <<"account", Named(<<"c", "y">>)>> >>
              [] shape = 5 ->
                   << <<"url", PStr(<<"h", "5">>)>>,
                      <<"name", PStr(<<"a", ".", "b">>)>>,
                      <<"mimeType", None>> >>
              [] shape = 4 ->
                   << <<"name", PStr(<<"c", "l", "i", "p", ".", "m", "p", "4">>)>>,
                      <<"mimeType", PStr(<<"v", "i", "d", "e", "o", "/", "m", "p", "4">>)>>,
                      <<"username", PStr(<<>>)>>,
                      <<"user", EmptyDict>>,
                      <<"account", Named(<<"c", "y">>)>> >>
              [] shape = 3 ->
                   << <<"url", PStr(<<"h", "3">>)>>,
                      <<"name", PStr(<<"i", "m", "g">>)>>,
                      <<"user", None>> >>
              [] OTHER ->
                   << <<"url", PStr(<<"h", "0">>)>>,
                      <<"username", None>>,
                      <<"user", JDict(<< <<"username", None>> >>)>>,
                      <<"account", JDict(<< <<"username", PStr(<<>>)>> >>)>> >>
    IN  DictMerge(Item(i), JDict(fields))

\* a list page of the collection: the items with these ids and the cursor
ListPage(ids, next) ==
    HttpResponse(200,
        Enveloped(DictOf(<< <<"nextCursor", next>>,
                            <<"items",
                              JList([k \in 1..Len(ids) |-> CollectionItem(ids[k])])>> >>)))

\* what the image.getGenerationData endpoint may answer
DetailResponses ==
    { HttpResponse(200, Enveloped(
          JDict(<< <<"meta", JDict(<< <<"prompt", PStr(<<"c", "a", "t">>)>>,
                                      <<"steps", JNum(20)>> >>)>>,
                   <<"resources",
                     JList(<< JDict(<< <<"modelType", PStr(<<"L", "O", "R", "A">>)>>,
                                       <<"modelName", PStr(<<"A">>)>> >>),
                              JDict(<< <<"type", PStr(Lit.checkpoint)>>,
                                       <<"modelName", PStr(<<"B">>)>>,
                                       <<"versionName", PStr(<<"v", "1">>)>> >>) >>)>> >>))),
      HttpResponse(200, Enveloped(JDict(<< <<"meta", None>> >>))),
      HttpResponse(200, Enveloped(EmptyDict)),
      HttpResponse(200, Enveloped(None)),
      HttpResponse(404, None),
      NetworkError }

\* what the tag.getVotableTags endpoint may answer
TagResponses ==
    LET Tag(name, score) ==
            JDict(<< <<"name", PStr(name)>>, <<"score", JNum(score)>> >>)
    IN  { HttpResponse(200, Enveloped(JList(<< Tag(<<"s", "k", "y">>, 1),
                                               Tag(<<>>, 3),
                                               Tag(<<"c", "a", "t">>, 2),
                                               JDict(<< <<"name", PStr(<<"s", "u", "n">>)>> >>),
                                               Tag(<<"d", "o", "g">>, 2) >>))),
          HttpResponse(200, Enveloped(JList(<<>>))),
          HttpResponse(500, None) }

\* scrape(collection_id, limit) against a collection served in order, in
\* pages of up to MaxScrapePage items
InitScrape ==
    /\ PagerInit
    /\ LocatorIdle
    /\ CredIdle
    /\ HelperIdle
    /\ ApiIdle
    /\ scrape_pc = "list"
    /\ idx = 0
    /\ curated_data = <<>>
    /\ wire = <<>>

NextScrape ==
    \/ LimitReached
    \/ \E ids \in { p \in ServedPages :
                        Len(p) <= MaxScrapePage /\ p[1] = Len(items) + 1 },
          next \in { JStr("a"), Absent } : FetchPage(ListPage(ids, next))
    \/ \E resp \in { HttpResponse(500, None), NetworkError } : FetchPage(resp)
    \/ ScrapeBegin
    \/ \E detail_resp \in DetailResponses, tags_resp \in TagResponses :
          ScrapeItem(detail_resp, tags_resp)

SpecScrape == InitScrape /\ [][NextScrape]_vars

-----------------------------------------------------------------------------
(* Properties of the harvest *)

\* indices in wire of the detail requests, in order
DetailAt == { n \in 1..Len(wire) : wire[n].op = "detail" }

\* the detail fetch at wire[n] yielded data
Succeeded(n) == Truthy(wire[n].data)

\* the merged records of the items whose detail fetch succeeded, in the
\* order of the requests, each with the tags of the lookup that followed
RECURSIVE MergedUpTo(_)
MergedUpTo(n) ==
    IF n = 0 THEN <<>>
    ELSE IF n \in DetailAt /\ Succeeded(n) /\ n < Len(wire)
    THEN Append(MergedUpTo(n - 1),
                [MergeData(items[wire[n].pos], wire[n].data)
                   EXCEPT !.tags = wire[n + 1].data])
    ELSE MergedUpTo(n - 1)

\* C22: a failed detail fetch (non-200, transport error, no data) leaves the
\* harvest running and only leaves that item out: when scrape returns, a
\* detail request was made for every list item, in list order, and the
\* output is the sequence of merged records of the items whose detail fetch
\* succeeded; scrape never raises on a failed detail fetch.
C22_FailedDetailOmitsOnlyThatItem ==
    /\ (scrape_pc = "done" /\ items # <<>>) =>
         /\ Cardinality(DetailAt) = Len(items)
         /\ \A n \in DetailAt :
              wire[n].pos = Cardinality({ m \in DetailAt : m <= n })
         /\ curated_data = MergedUpTo(Len(wire))
    /\ (scrape_pc = "raised" /\ wire # <<>>) =>
         ~(wire[Len(wire)].op = "detail" /\ ~Succeeded(Len(wire)))

\* a harvest that returned after a failed detail fetch followed by a
\* successful one
C22_Witness ==
    /\ scrape_pc = "done"
    /\ \E n, m \in DetailAt : n < m /\ ~Succeeded(n) /\ Succeeded(m)
    /\ Len(curated_data) > 0
    /\ Len(curated_data) < Len(items)

\* C24: the requests of scrape go out one after the other: no detail request
\* is made before fetch_collection_items is through with its list pages,
\* the detail requests follow the order of the list, a tag lookup comes
\* right after the successful detail fetch of the same item, and between
\* two consecutive detail fetches lies a sleep of 0.2 s.
C24_SequentialWithDelay ==
    /\ wire # <<>> => (pc = "done" /\ scrape_pc # "list")
    /\ \A n \in DetailAt :
         /\ wire[n].pos = Cardinality({ m \in DetailAt : m <= n })
         /\ wire[n].id = Get(items[wire[n].pos], "id")
    /\ \A n \in 1..Len(wire) :
         wire[n].op = "tags" =>
            /\ n - 1 \in DetailAt
            /\ Succeeded(n - 1)
            /\ wire[n - 1].pos = wire[n].pos
    /\ \A n, m \in DetailAt :
         n < m => \E k \in (n + 1)..(m - 1) :
                     wire[k].op = "sleep" /\ wire[k].ms = SleepMs

\* a harvest in which a failed detail fetch is followed by a successful
\* one with its tag lookup
C24_Witness ==
    \E n, m \in DetailAt :
        /\ n < m
        /\ ~Succeeded(n)
        /\ Succeeded(m)
        /\ m < Len(wire)
        /\ wire[m + 1].op = "tags"
        /\ fetches > 1

-----------------------------------------------------------------------------
(* The two-page harvest: collection 11035255 served as a page of 50 and a  *)
(* page of 12 items, no limit, every detail fetch succeeding.              *)

\* the list page the endpoint serves for this cursor: the first 50 of the
\* 62 items and a next cursor, then the other 12 and none; the ids are
\* distinct, and none is of an item whose `user` or `account` is null
ScenarioPage(cur) ==
    LET Usable(i) == /\ ~IsNone(GetOr(CollectionItem(i), "user", EmptyDict))
                     /\ ~IsNone(GetOr(CollectionItem(i), "account", EmptyDict))
        ids == SelectSeq([i \in 1..(2 * (50 + 12)) |-> i], Usable)
    IN  IF IsNone(cur)
        THEN ListPage(SubSeq(ids, 1, 50), JStr("a"))
        ELSE ListPage(SubSeq(ids, 50 + 1, 50 + 12), Absent)

InitScenario ==
    /\ PagerInit
    /\ limit = None
    /\ LocatorIdle
    /\ CredIdle
    /\ ApiIdle
    /\ call \in { [detail_resp |-> d, tags_resp |-> t] :
                    d \in { r \in DetailResponses : Truthy(MakeRequest(r)) },
                    t \in TagResponses }
    /\ ret = <<>>
    /\ scrape_pc = "list"
    /\ idx = 0
    /\ curated_data = <<>>
    /\ wire = <<>>

NextScenario ==
    \/ FetchPage(ScenarioPage(cursor))
    \/ ScrapeBegin
    \/ ScrapeItem(call.detail_resp, call.tags_resp)

SpecScenario == InitScenario /\ [][NextScenario]_vars

-----------------------------------------------------------------------------
(* The request of the legacy paginator against the envelope of CivitaiAPI *)

\* C25: the `input` query parameter of every request of
\* fetch_collection_items is the encoded envelope itself: the text of a JSON
\* object whose keys are `json` and, on the first page only, `meta`, equal
\* to what CivitaiAPI._build_trpc_payload gives for the same payload.
C25_InputIsTheEnvelope ==
    fetches > 0 =>
        LET input == Lookup(request.params, "input")
            envelope == JsonLoads(input)
        IN  /\ HasKey(envelope, "json")
            /\ HasKey(envelope, "meta") <=> fetches = 1
            /\ \A k \in 1..Len(envelope.entries) :
                 envelope.entries[k][1] \in {"json", "meta"}
            /\ input = ApiBuildTrpcPayload(request.payload)

\* C26: a limit of -1 stands for "all items": the run is never ended by the
\* limit, so like a run without limit it makes a request before it returns.
C26_MinusOneMeansAll ==
    (~IsNone(limit) /\ limit.n = -1) =>
        /\ term # "LIMIT_REACHED"
        /\ pc = "done" => fetches > 0

-----------------------------------------------------------------------------
(* CivitaiAPI.fetch_collection_items: one request, then the locator *)

\* `result` is bound only inside `if response:`; the return statement reads
\* it on every path
ApiFetchCollectionItems(resp) ==
    LET decoded == MakeRequest(resp)
    IN  IF Truthy(decoded)
        THEN LET result == ApiFindDeepImageList(decoded, 0)
             IN  IF ~IsNone(result) THEN result ELSE JList(<<>>)
        ELSE [t |-> "exception", s |-> "UnboundLocalError"]

\* self.fetch_collection_items(collection_id), answered by call.response
FetchCollectionItemsCall ==
    /\ ret = <<>>
    /\ ret' = <<ApiFetchCollectionItems(call.response)>>
    /\ UNCHANGED call
    /\ UNCHANGED <<pagerVars, locatorVars, credVars, scrapeVars, apiVars>>

SpecCollection ==
    /\ HelperInit({ [response |-> r] : r \in DecodeResponses })
    /\ [][FetchCollectionItemsCall]_vars

\* C28: fetch_collection_items always returns a list, never raises: the
\* located item list when the response holds one, the empty list when the
\* request failed (_make_request gave None) or no item list is found.
C28_AlwaysReturnsAList ==
    ret # <<>> =>
        /\ ret[1].t = "list"
        /\ LET decoded == MakeRequest(call.response)
               found == IF IsNone(decoded) THEN None
                        ELSE ApiFindDeepImageList(decoded, 0)
           IN  ret[1] = IF IsNone(found) THEN JList(<<>>) ELSE found

-----------------------------------------------------------------------------
(* Where the third source takes its credential from *)

\* C29: when the cache source and the environment source have yielded
\* nothing (a cache file whose token fails the length test included), a
\* value yielded by automated acquisition is the result of a login started
\* in that call, not the content of the cache file.
C29_AcquisitionIsAFreshLogin ==
    [][(Resolving /\ CacheHoldsNothing /\ EnvHoldsNothing)
       => LET r == ThisResolution
          IN  (Len(r.consulted) >= 3 /\ TokenTruthy(r.consulted[3].yielded))
                => /\ r.started
                   /\ browser.kind = "token"
                   /\ r.consulted[3].yielded = browser.token]_vars

-----------------------------------------------------------------------------
(* The CivitaiAPI singleton: __new__, __init__ and get_instance *)

MaxCalls == 3   \* CivitaiAPI(...) / get_instance() calls in one run

\* the body of CivitaiAPI.__init__ below the _initialized guard: the session
\* credential from the argument, the resolver or the config module, then the
\* HTTP session and the default parameters; a resolver that raises leaves
\* the object as it was
Initialize(self, session_cookie, auto_authenticate, cf, env, ef, br, cc, n) ==
    LET r == GetAutoSessionToken(cf, env, ef, br, cc)
        resolved == ~TokenTruthy(session_cookie) /\ auto_authenticate
        credential == IF TokenTruthy(session_cookie) THEN session_cookie
                      ELSE IF auto_authenticate THEN r.value
                      ELSE cc
    IN  IF resolved /\ r.raised
        THEN [self |-> self, raised |-> TRUE, sessions |-> n,
              cache_file |-> r.cache_file, dotenv_file |-> r.dotenv_file,
              resolutions |-> << r >>]
        ELSE [self |-> [self EXCEPT !.session_cookie = credential,
                                    !.session = n + 1,
                                    !.default_params = DefaultParams,
                                    !.initialized = TRUE],
              raised |-> FALSE, sessions |-> n + 1,
              cache_file |-> IF resolved THEN r.cache_file ELSE cf,
              dotenv_file |-> IF resolved THEN r.dotenv_file ELSE ef,
              resolutions |-> IF resolved THEN << r >> ELSE <<>>]

\* a variant without the _initialized guard
CivitaiAPIInit_Unguarded(self, session_cookie, auto_authenticate, cf, env, ef, br, cc, n) ==
    Initialize(self, session_cookie, auto_authenticate, cf, env, ef, br, cc, n)

\* CivitaiAPI.__init__
CivitaiAPIInit(self, session_cookie, auto_authenticate, cf, env, ef, br, cc, n) ==
    IF self.initialized
    THEN [self |-> self, raised |-> FALSE, sessions |-> n,
          cache_file |-> cf, dotenv_file |-> ef, resolutions |-> <<>>]
    ELSE Initialize(self, session_cookie, auto_authenticate,
                    cf, env, ef, br, cc, n)

\* CivitaiAPI.__new__: the object stored in cls._instance, created with
\* _initialized = False and no other attribute when there is none
New(inst) ==
    IF inst = None
    THEN [t |-> "CivitaiAPI", initialized |-> FALSE, session_cookie |-> Absent,
          session |-> Absent, default_params |-> Absent]
    ELSE inst

\* CivitaiAPI(session_cookie, auto_authenticate), also as called by
\* CivitaiPrivateScraper.__init__: __new__ stores the object in cls._instance
\* before __init__ runs, so it stays there when __init__ raises
Construct(session_cookie, auto_authenticate) ==
    /\ Len(handed) < MaxCalls
    /\ \E o \in { CivitaiAPIInit(New(instance), session_cookie, auto_authenticate,
                                 cache_file, environ, dotenv_file, browser,
                                 config_cookie, sessions) } :
           /\ instance' = o.self
           /\ sessions' = o.sessions
           /\ cache_file' = o.cache_file
           /\ dotenv_file' = o.dotenv_file
           /\ resolutions' = resolutions \o o.resolutions
           /\ handed' = Append(handed,
                               [op |-> "CivitaiAPI", raised |-> o.raised,
                                args |-> <<session_cookie, auto_authenticate>>,
                                returned |-> IF o.raised THEN None ELSE o.self])
    /\ UNCHANGED <<environ, config_cookie, browser>>
    /\ UNCHANGED <<pagerVars, locatorVars, helperVars, scrapeVars>>

\* CivitaiAPI.get_instance(): cls(auto_authenticate=True) when cls._instance
\* is None, then return cls._instance
GetInstance ==
    /\ Len(handed) < MaxCalls
    /\ \E o \in { IF instance = None
                   THEN CivitaiAPIInit(New(instance), None, TRUE,
                                       cache_file, environ, dotenv_file, browser,
                                       config_cookie, sessions)
                   ELSE [self |-> instance, raised |-> FALSE,
                         sessions |-> sessions, cache_file |-> cache_file,
                         dotenv_file |-> dotenv_file, resolutions |-> <<>>] } :
           /\ instance' = o.self
           /\ sessions' = o.sessions
           /\ cache_file' = o.cache_file
           /\ dotenv_file' = o.dotenv_file
           /\ resolutions' = resolutions \o o.resolutions
           /\ handed' = Append(handed,
                               [op |-> "get_instance", raised |-> o.raised,
                                args |-> <<>>,
                                returned |-> IF o.raised THEN None ELSE o.self])
    /\ UNCHANGED <<environ, config_cookie, browser>>
    /\ UNCHANGED <<pagerVars, locatorVars, helperVars, scrapeVars>>

\* the process starts with no instance; the cache file is missing or holds a
\* valid token, the environment variables are unset, the login module is
\* missing, the login fails or it returns a token, and the config module is
\* missing or defines a cookie
InitSingleton ==
    /\ PagerIdle
    /\ ScrapeIdle
    /\ ApiIdle
    /\ LocatorIdle
    /\ HelperIdle
    /\ cache_file \in {NoFile, TextFile(Token("cached", 101), FALSE)}
    /\ dotenv_file = NoFile
    /\ environ = [CIVITAI_SESSION_COOKIE |-> None, CIVITAI_SESSION_TOKEN |-> None]
    /\ config_cookie \in {None, Token("config", 101)}
    /\ browser \in { [kind |-> "import_error", token |-> None],
                     [kind |-> "login_failed", token |-> None],
                     [kind |-> "token", token |-> Token("login", 101)] }
    /\ resolutions = <<>>

NextSingleton ==
    \/ \E session_cookie \in {None, Token("", 0), Token("given", 101)},
          auto_authenticate \in BOOLEAN :
         Construct(session_cookie, auto_authenticate)
    \/ GetInstance

SpecSingleton == InitSingleton /\ [][NextSingleton]_vars

-----------------------------------------------------------------------------
(* Properties of the singleton *)

\* the call made by the step being taken, and what it handed back
Calling == Len(handed') = Len(handed) + 1

ThisCall == handed'[Len(handed')]

FullyInitialized == instance # None /\ instance.initialized

\* C27: once the instance is fully initialized, every CivitaiAPI(...) and
\* every get_instance() call returns that same instance without raising and
\* leaves its session credential, default parameters and HTTP session as
\* they were, whatever arguments are passed; no new HTTP session is created
C27_SingletonIsKept ==
    [][(FullyInitialized /\ Calling)
         => /\ ~ThisCall.raised
            /\ ThisCall.returned = instance
            /\ instance' = instance
            /\ sessions' = sessions]_vars

\* a construction with another cookie and a get_instance call both returned
\* the instance the first call had initialized
C27_Witness ==
    /\ Len(handed) = 3
    /\ ~handed[1].raised
    /\ handed[2].op = "CivitaiAPI"
    /\ TokenTruthy(handed[2].args[1])
    /\ handed[2].args[1] # handed[1].returned.session_cookie
    /\ handed[3].op = "get_instance"
    /\ handed[2].returned = handed[1].returned
    /\ handed[3].returned = handed[1].returned

\* C30: every instance a call returns has _initialized = True and the
\* session_cookie attribute set, also after an earlier call raised
C30_ReturnedInstanceIsInitialized ==
    \A i \in 1..Len(handed) :
        ~handed[i].raised
          => /\ handed[i].returned.initialized
             /\ handed[i].returned.session_cookie # Absent

=============================================================================
